---- MODULE Spec2Model ----
(***************************************************************************)
(* State-machine model of the TuxFw control plane.                         *)
(*                                                                         *)
(*   Security Policy Engine  firewall/script/security_utils.py             *)
(*   VPN Session Manager     firewall/script/network_zones.py              *)
(*   Orchestrator (VPN part) firewall/script/firewall_manager.py           *)
(*   Platform Enforcer       firewall/script/win_firewall.py               *)
(*                                                                         *)
(* Time is the value time.time() returns, in seconds; the clock only moves *)
(* in its own action, so every call reads one value of `now`.              *)
(***************************************************************************)
EXTENDS Integers, Sequences, FiniteSets, TLC

(***************************************************************************)
(* Bounds of the model.                                                    *)
(***************************************************************************)
\* last instant of the clock in the security-engine runs
MaxTime == 300
\* last instant of the clock in the rate-limiter runs
MaxRateTime == 120
\* last instant of the clock in the port-knocking runs
MaxKnockTime == 15
\* cap on the number of add_knock calls in the port-knocking runs
MaxKnocks == 4
\* RateLimitConfig.max_requests of the "default" class (100 in the source,
\* scaled down; every property is stated for this N)
max_requests == 3
\* cap on the client processes of one VPN left without an owner
MaxOrphans == 2
\* cap on the length of a stored rule list
MaxRules == 3
\* cap on the ids uuid.uuid4() hands out
MaxUuid == 3
\* the callbacks registered with the network monitor at most
MaxCallbacks == 2

(***************************************************************************)
(* Program constants.                                                      *)
(***************************************************************************)
\* RateLimitConfig.time_window
time_window == 60
\* cooldown of the automatic block after a rate-limit trip
BLOCK_COOLDOWN == 300
\* PortKnocking.window
knock_window == 10
\* IPReputationChecker.update_interval
update_interval == 3600
\* PortKnocking.sequence
sequence == <<1000, 2000, 3000>>
sequence_length == Len(sequence)

(***************************************************************************)
(* Input domains.                                                          *)
(***************************************************************************)
IPs == {"ip1", "ip2"}
\* the client the security engine is asked about
SecIPs == {"ip1"}
\* the value of an omitted port argument (Python None)
None == -1
Ports == {0, 1000, 2000, 3000}
PortArgs == Ports \cup {None}
\* durations handed to block_ip
Durations == {200}
\* endpoint names handed to is_rate_limited; only "default" is configured
Endpoints == {"default", "api"}
\* steps of the clock
SecSteps == {150}
RateSteps == {30, 60}
KnockSteps == {5}
\* country codes as the caller types them
CountryInputs == {"ru", "RU"}
\* what the GeoIP database answers for an address ("" : lookup fails)
GeoCountry(ip) == IF ip = "ip1" THEN "ru" ELSE ""
\* addresses the threat feeds list
FeedIPs == {"ip1"}

VARIABLES
    now,              \* time.time()
    blocked_ips,      \* EnhancedSecurity.blocked_ips : ip -> unblock time
    requests,         \* RateLimiter.requests : ip -> endpoint -> deque of times
    knock_attempts,   \* PortKnocking.knock_attempts : ip -> list of <<time, port>>
    blocked_countries,\* GeoIPBlocker.blocked_countries
    geo_db,           \* GeoIPBlocker.available and geoip_db loaded
    bad_ips,          \* IPReputationChecker.bad_ips
    last_updated,     \* IPReputationChecker.last_updated (None before the first)
    op,               \* the last call and what it returned
    connected,        \* VPNAPI.connected of each client
    process,          \* OpenVPNClient.process: "none", "alive" or "dead" (exited)
    log_sink,         \* OpenVPNClient._log_sink is set
    reader_thread,    \* OpenVPNClient._reader_thread: "none", "running" or "done"
    stop_read,        \* OpenVPNClient._stop_read
    exe_found,        \* shutil.which(self.exe) finds the client program
    orphans,          \* live client processes no client object refers to
    tunnel_service,   \* the WireGuard tunnel service is installed
    kill_switch,      \* VPNManager._kill_switch
    fw_rules,         \* the rules of the display group "TuxFw VPN" named TuxFw_Kill_*
    is_windows,       \* WindowsFirewallController.is_windows
    vpn_clients,      \* the keys of VPNManager.vpn_clients
    split_tunnel,     \* VPNManager._split_tunnel : name -> policy
    zones,            \* ZoneManager.zones : name -> the split_tunneling entry of vpn_config
    zone_files,       \* config/zones/<name>.json, the same entry as saved
    split_rules,      \* the rules of the group named TuxFw_Split_*
    config_file,      \* config/firewall_config.json
    config,           \* FirewallConfig.config
    rules_cache,      \* FirewallManager._rules
    next_uuid,        \* the number of ids uuid.uuid4() has produced
    backend_mode,     \* NFTablesManager: "nft" or "mock" (use_mock)
    kernel_rules,     \* the ruleset of the nft tool
    mock_rules,       \* MockFirewall.rules
    submitted,        \* the ruleset last handed to NFTablesManager.apply_ruleset
    error_log,        \* what the last call logged as errors
    first_request,    \* history: ip -> time of the first request the limiter accepted
    accept_log,       \* history: ip -> times of the last max_requests + 1 accepted requests
    knock_log,        \* history: ip -> every <<time, port>> handed to add_knock
    monitor_running,  \* NetworkMonitor._running
    thread,           \* NetworkMonitor._thread: "none" or "set"
    joining,          \* the caller of stop() waits in self._thread.join()
    callbacks,        \* NetworkMonitor._callbacks
    loop_pc,          \* the thread of _monitor_loop: "idle" (none runs), "test", "notify"
    loop_i,           \* the index of `for callback in self._callbacks`
    polled,           \* the connections of the iteration under way
    handed,           \* history: the callbacks called in the iteration and what they got
    ids_rules         \* IntrusionDetectionSystem.rules : id -> enabled

secVars == <<now, blocked_ips, requests, knock_attempts, blocked_countries,
             geo_db, bad_ips, last_updated, first_request, accept_log, knock_log>>

vpnVars == <<connected, process, log_sink, reader_thread, stop_read, exe_found,
             orphans, tunnel_service, kill_switch, fw_rules, is_windows>>

tunVars == <<vpn_clients, split_tunnel, zones, zone_files, split_rules>>

storeVars == <<config_file, config, rules_cache, next_uuid, backend_mode,
               kernel_rules, mock_rules, submitted, error_log>>

monVars == <<monitor_running, thread, joining, callbacks, loop_pc, loop_i, polled,
             handed, ids_rules>>

vars == <<secVars, vpnVars, tunVars, storeVars, monVars, op>>

(***************************************************************************)
(* Helpers for Python dicts (functions whose domain changes).              *)
(***************************************************************************)
DictPut(d, k, v) == [x \in (DOMAIN d) \cup {k} |-> IF x = k THEN v ELSE d[x]]
DictDel(d, k) == [x \in (DOMAIN d) \ {k} |-> d[x]]
EmptyDict == [x \in {} |-> 0]

\* a call, its argument, what it returned, and how it got there
CallVia(name, arg, ret, via) == [name |-> name, arg |-> arg, ret |-> ret, via |-> via]
Call(name, arg, ret) == CallVia(name, arg, ret, "-")

\* str(b) of a Python bool
Bool(b) == IF b THEN "True" ELSE "False"

(***************************************************************************)
(* RateLimiter                                                             *)
(***************************************************************************)
\* the configured class an endpoint name resolves to
EndpointClass(endpoint) == IF endpoint = "default" THEN endpoint ELSE "default"

\* the while loop of is_rate_limited: drop the oldest entries outside the window
RECURSIVE EvictOld(_, _)
EvictOld(q, t) ==
    IF Len(q) > 0 /\ t - Head(q) > time_window THEN EvictOld(Tail(q), t) ELSE q

\* the limit test with > for >=
RateLimitedOffByOne(q, t) == Len(EvictOld(q, t)) > max_requests

\* is_rate_limited's return value for the queue q at time t
RateLimited(q, t) == Len(EvictOld(q, t)) >= max_requests

\* a request recorded also when the limit is reached
RateQueueAlwaysRecords(q, t) == Append(EvictOld(q, t), t)

\* the queue is_rate_limited leaves behind
RateQueue(q, t) ==
    IF RateLimited(q, t) THEN EvictOld(q, t) ELSE Append(EvictOld(q, t), t)

(***************************************************************************)
(* PortKnocking                                                            *)
(***************************************************************************)
\* the clean-up left out
FreshKnocksKeepAll(l, t) == l

\* the clean-up of add_knock: keep the knocks not older than the window
FreshKnocks(l, t) == SelectSeq(l, LAMBDA k : t - k[1] <= knock_window)

\* knock_attempts after add_knock(ip, port) at time t
KnocksAfter(ka, ip, port, t) ==
    LET kept == IF ip \in DOMAIN ka THEN FreshKnocks(ka[ip], t) ELSE << >>
    IN  DictPut(ka, ip, Append(kept, <<t, port>>))

\* the comparison without regard to order
CheckSequenceAnyOrder(ka, ip) ==
    IF ip \notin DOMAIN ka THEN FALSE
    ELSE LET ports == [i \in 1..Len(ka[ip]) |-> ka[ip][i][2]]
             n == Len(ports)
         IN  IF n < sequence_length THEN FALSE
             ELSE {ports[i] : i \in (n - sequence_length + 1)..n}
                    = {sequence[i] : i \in 1..sequence_length}

\* _check_sequence
CheckSequence(ka, ip) ==
    IF ip \notin DOMAIN ka THEN FALSE
    ELSE LET ports == [i \in 1..Len(ka[ip]) |-> ka[ip][i][2]]
             n == Len(ports)
         IN  IF n < sequence_length THEN FALSE
             ELSE SubSeq(ports, n - sequence_length + 1, n) = sequence

(***************************************************************************)
(* GeoIPBlocker and IPReputationChecker                                    *)
(***************************************************************************)
Upper(c) == IF c = "ru" THEN "RU" ELSE c

IsCountryBlocked(ip) ==
    IF ~geo_db \/ blocked_countries = {} THEN FALSE
    ELSE IF GeoCountry(ip) = "" THEN FALSE
    ELSE Upper(GeoCountry(ip)) \in blocked_countries

\* update_threat_feeds is due: never updated, or the interval has passed
FeedsDue == last_updated = None \/ now - last_updated > update_interval

(***************************************************************************)
(* History kept for the statements below; no action reads it.  The logs    *)
(* of requests and knocks follow the direct calls of the two components.   *)
(***************************************************************************)
\* the last n entries of a sequence
LastN(s, n) == IF Len(s) <= n THEN s ELSE SubSeq(s, Len(s) - n + 1, Len(s))

LogAccept(ip) == [accept_log EXCEPT ![ip] = LastN(Append(@, now), max_requests + 1)]
LogFirst(ip) ==
    IF first_request[ip] = None THEN [first_request EXCEPT ![ip] = now]
    ELSE first_request
LogKnock(ip, port) == [knock_log EXCEPT ![ip] = Append(@, <<now, port>>)]
\* the number of add_knock calls made so far
KnockCalls == Len(knock_log["ip1"]) + Len(knock_log["ip2"])

(***************************************************************************)
(* RateLimiter.is_rate_limited(ip, endpoint)                               *)
(***************************************************************************)
IsRateLimited(ip, endpoint) ==
    LET c == EndpointClass(endpoint)
        limited == RateLimited(requests[ip][c], now)
    IN  /\ requests' = [requests EXCEPT ![ip][c] = RateQueue(@, now)]
        /\ accept_log' = IF limited THEN accept_log ELSE LogAccept(ip)
        /\ first_request' = IF limited THEN first_request ELSE LogFirst(ip)
        /\ op' = Call("is_rate_limited", ip, IF limited THEN "True" ELSE "False")
        /\ UNCHANGED <<now, blocked_ips, knock_attempts, blocked_countries, geo_db,
                       bad_ips, last_updated, knock_log, vpnVars, tunVars, monVars, storeVars>>

(***************************************************************************)
(* PortKnocking.add_knock(ip, port)                                        *)
(***************************************************************************)
AddKnock(ip, port) ==
    LET ka == KnocksAfter(knock_attempts, ip, port, now)
    IN  /\ KnockCalls < MaxKnocks
        /\ knock_attempts' = ka
        /\ knock_log' = LogKnock(ip, port)
        /\ op' = Call("add_knock", ip, IF CheckSequence(ka, ip) THEN "True" ELSE "False")
        /\ UNCHANGED <<now, blocked_ips, requests, blocked_countries, geo_db,
                       bad_ips, last_updated, first_request, accept_log, vpnVars, tunVars, monVars, storeVars>>

(***************************************************************************)
(* EnhancedSecurity                                                        *)
(***************************************************************************)
\* the expiry test with <= for <
StillBlockedInclusive(ip) == ip \in DOMAIN blocked_ips /\ now <= blocked_ips[ip]

\* the block-list test of check_security: an entry that has not expired
StillBlocked(ip) == ip \in DOMAIN blocked_ips /\ now < blocked_ips[ip]

\* Python truth value of the port argument (None and 0 are false)
PortGiven(port) == port # None /\ port # 0

\* a cooldown of one rate window
CooldownOneWindow == now + time_window

\* the unblock time a rate-limit trip puts on the block list
CooldownUntil == now + BLOCK_COOLDOWN

\* the reputation check moved before the country check
DecideReputationFirst(ip, port, b) ==
    IF RateLimited(requests[ip]["default"], now) THEN "rate_limit"
    ELSE IF ip \in b THEN "reputation_block"
    ELSE IF IsCountryBlocked(ip) THEN "geo_block"
    ELSE IF PortGiven(port)
         THEN IF CheckSequence(KnocksAfter(knock_attempts, ip, port, now), ip)
              THEN "allow" ELSE "block"
    ELSE "allow"

\* the checks of check_security that follow the block list, in the order of
\* the code; b is bad_ips after update_threat_feeds
Decide(ip, port, b) ==
    IF RateLimited(requests[ip]["default"], now) THEN "rate_limit"
    ELSE IF IsCountryBlocked(ip) THEN "geo_block"
    ELSE IF ip \in b THEN "reputation_block"
    ELSE IF PortGiven(port)
         THEN IF CheckSequence(KnocksAfter(knock_attempts, ip, port, now), ip)
              THEN "allow" ELSE "block"
    ELSE "allow"

\* what check_security returns
CheckOutcome(ip, port, b) ==
    IF StillBlocked(ip) THEN "block" ELSE Decide(ip, port, b)

\* check_security gets as far as update_threat_feeds
ReachesFeeds(ip) ==
    /\ ~StillBlocked(ip)
    /\ ~RateLimited(requests[ip]["default"], now)
    /\ ~IsCountryBlocked(ip)

\* update_threat_feeds as check_security reaches it: when an update is due the
\* feeds are fetched; F is what the fetches that answered add to bad_ips and
\* ok is FALSE when a fetch raised; when none is due nothing is fetched
FeedOutcomes(ip) ==
    IF ReachesFeeds(ip) /\ FeedsDue
    THEN [F : SUBSET FeedIPs, ok : BOOLEAN]
    ELSE {[F |-> {}, ok |-> FALSE]}

\* check_security(ip, port)
CheckSecurity(ip, port) ==
    \E u \in FeedOutcomes(ip) :
        LET b == bad_ips \cup u.F
            tripped == ~StillBlocked(ip) /\ RateLimited(requests[ip]["default"], now)
            knocked == ReachesFeeds(ip) /\ ip \notin b /\ PortGiven(port)
        IN  /\ bad_ips' = b
            /\ last_updated' = IF u.ok THEN now ELSE last_updated
            /\ blocked_ips' =
                 IF StillBlocked(ip) THEN blocked_ips
                 ELSE IF tripped
                      THEN DictPut(DictDel(blocked_ips, ip), ip, CooldownUntil)
                      ELSE DictDel(blocked_ips, ip)
            /\ requests' =
                 IF StillBlocked(ip) THEN requests
                 ELSE [requests EXCEPT ![ip]["default"] = RateQueue(@, now)]
            /\ knock_attempts' =
                 IF knocked THEN KnocksAfter(knock_attempts, ip, port, now)
                 ELSE knock_attempts
            /\ op' = Call("check_security", ip, CheckOutcome(ip, port, b))
            /\ UNCHANGED <<now, blocked_countries, geo_db, first_request, accept_log,
                           knock_log, vpnVars, tunVars, monVars, storeVars>>

\* block_ip(ip, duration)
BlockIp(ip, duration) ==
    /\ blocked_ips' = DictPut(blocked_ips, ip, now + duration)
    /\ op' = Call("block_ip", ip, "None")
    /\ UNCHANGED <<now, requests, knock_attempts, blocked_countries, geo_db, bad_ips,
                   last_updated, first_request, accept_log, knock_log, vpnVars, tunVars, monVars, storeVars>>

\* unblock_ip(ip)
UnblockIp(ip) ==
    /\ blocked_ips' = DictDel(blocked_ips, ip)
    /\ op' = Call("unblock_ip", ip, "None")
    /\ UNCHANGED <<now, requests, knock_attempts, blocked_countries, geo_db, bad_ips,
                   last_updated, first_request, accept_log, knock_log, vpnVars, tunVars, monVars, storeVars>>

\* GeoIPBlocker.block_country(country_code)
BlockCountry(code) ==
    /\ blocked_countries' = blocked_countries \cup {Upper(code)}
    /\ op' = Call("block_country", "-", "None")
    /\ UNCHANGED <<now, blocked_ips, requests, knock_attempts, geo_db, bad_ips,
                   last_updated, first_request, accept_log, knock_log, vpnVars, tunVars, monVars, storeVars>>

\* GeoIPBlocker.unblock_country(country_code)
UnblockCountry(code) ==
    /\ blocked_countries' = blocked_countries \ {Upper(code)}
    /\ op' = Call("unblock_country", "-", "None")
    /\ UNCHANGED <<now, blocked_ips, requests, knock_attempts, geo_db, bad_ips,
                   last_updated, first_request, accept_log, knock_log, vpnVars, tunVars, monVars, storeVars>>

\* the clock moves on by d seconds, up to the instant max
Tick(d, max) ==
    /\ now + d <= max
    /\ now' = now + d
    /\ op' = Call("tick", "-", "None")
    /\ UNCHANGED <<blocked_ips, requests, knock_attempts, blocked_countries, geo_db,
                   bad_ips, last_updated, first_request, accept_log,
                   knock_log, vpnVars, tunVars, monVars, storeVars>>

(***************************************************************************)
(* Rule Store and Rule Compiler: FirewallConfig and FirewallManager        *)
(***************************************************************************)
\* a key a dict does not have
Absent == "<absent>"

\* an entry of a stored rule list: a dict with the keys it has, or something
\* that is not a dict; ids are numbers, 0 when the key is missing
Entry(dict, id, name, protocol, port, direction, action, enabled, interface) ==
    [dict |-> dict, id |-> id, name |-> name, protocol |-> protocol, port |-> port,
     direction |-> direction, action |-> action, enabled |-> enabled,
     interface |-> interface]
NoId == 0
\* an entry that is not a dict (a string, a number, null)
Junk == Entry(FALSE, NoId, Absent, Absent, Absent, Absent, Absent, Absent, Absent)

\* the action that gives no statement
NoAction == "None"

\* an action that is not known compiles to accept
NftActionDefaultAccept(action) ==
    IF action = "block" THEN "drop"
    ELSE IF action = "reject" THEN "reject with icmp type host-prohibited"
    ELSE "accept"

\* _convert_rule_to_nftables: the verdict of an action
NftAction(action) ==
    IF action = "allow" THEN "accept"
    ELSE IF action = "block" THEN "drop"
    ELSE IF action = "reject" THEN "reject with icmp type host-prohibited"
    ELSE NoAction

\* int(port) raises: the range "a-b" has no numbers
PortRaises(port) == port = "a-b"

\* the interface key is iifname whatever the chain
IfaceValueInOnly(rule, iface_key, key) ==
    IF key = "iifname" /\ rule.interface \notin {Absent, ""} THEN rule.interface
    ELSE Absent

\* the value the statement has under key when iface_key is the key of its
\* chain
IfaceValue(rule, iface_key, key) ==
    IF key = iface_key /\ rule.interface \notin {Absent, ""} THEN rule.interface
    ELSE Absent

\* what a conversion that failed returns in place of a statement
NoStatement ==
    [action |-> NoAction, family |-> Absent, table |-> Absent, chain |-> Absent,
     l4proto |-> Absent, dport |-> 0, iifname |-> Absent, oifname |-> Absent]

\* the dict _convert_rule_to_nftables builds for one chain; the except branch
\* turns an error of int() into None
Statement(rule, chain, iface_key) ==
    IF PortRaises(IF rule.port = Absent THEN "" ELSE rule.port) THEN NoStatement
    ELSE [action |-> NftAction(rule.action),
          family |-> "ip",
          table |-> "filter",
          chain |-> chain,
          l4proto |-> IF rule.protocol \notin {Absent, "", "all"} THEN rule.protocol
                      ELSE Absent,
          dport |-> IF rule.port = "22" THEN 22 ELSE 0,
          iifname |-> IfaceValue(rule, iface_key, "iifname"),
          oifname |-> IfaceValue(rule, iface_key, "oifname")]

\* FirewallManager._convert_rule_to_nftables(rule): None, one statement, or
\* for every direction other than in and out the list of the conversions for
\* in and for out
ConvertRuleToNftables(rule) ==
    IF ~rule.dict \/ NftAction(rule.action) = NoAction
    THEN [kind |-> "None", stmts |-> << >>]
    ELSE LET direction == IF rule.direction = Absent THEN "in" ELSE rule.direction
         IN  IF direction = "in"
             THEN LET st == Statement(rule, "INPUT", "iifname")
                  IN  IF st = NoStatement THEN [kind |-> "None", stmts |-> << >>]
                      ELSE [kind |-> "dict", stmts |-> <<st>>]
             ELSE IF direction = "out"
             THEN LET st == Statement(rule, "OUTPUT", "oifname")
                  IN  IF st = NoStatement THEN [kind |-> "None", stmts |-> << >>]
                      ELSE [kind |-> "dict", stmts |-> <<st>>]
             ELSE [kind |-> "list",
                   stmts |-> <<Statement(rule, "INPUT", "iifname"),
                               Statement(rule, "OUTPUT", "oifname")>>]

\* the rules handed to the compiler; "ALLOW" and "IN" are the defaults
\* get_rules gives a rule without action and direction
CompileRules ==
    {Entry(TRUE, 1, "ssh", protocol, port, direction, action, "True", interface) :
        protocol \in {"tcp", "all"}, port \in {"", "22", "a-b"},
        direction \in {"in", "out", "both", "IN"},
        action \in {"allow", "block", "reject", "ALLOW"},
        interface \in {"", "eth0"}}

\* a call of _convert_rule_to_nftables
ConvertRule(rule) ==
    /\ op' = Call("convert_rule", rule, ConvertRuleToNftables(rule))
    /\ UNCHANGED <<secVars, vpnVars, tunVars, monVars, storeVars>>

\* ---- FirewallConfig ----
\* get_default_config: the profile "default" with no rules.  A configuration
\* is its shape ("profiles": profiles/<current>/rules is the list; "legacy":
\* the list is under the top-level key firewall_rules; "bare": neither) and
\* the list
DefaultConfig == [shape |-> "profiles", rules |-> << >>]

\* the first id uuid.uuid4() gives is UuidBase + 1: an id no caller types
UuidBase == 100

\* list.remove of the element at i
RemoveAt(list, i) == SubSeq(list, 1, i - 1) \o SubSeq(list, i + 1, Len(list))

\* a rule without an id gets the next one of uuid.uuid4()
WithId(rule, uuid) == [rule EXCEPT !.id = IF @ = NoId THEN UuidBase + uuid + 1 ELSE @]

\* the required fields of a rule that lacks them, set to their defaults
Defaulted(rule, uuid) ==
    [WithId(rule, uuid) EXCEPT
                 !.name = IF @ = Absent THEN "Unnamed Rule" ELSE @,
                 !.protocol = IF @ = Absent THEN "TCP" ELSE @,
                 !.port = IF @ = Absent THEN "" ELSE @,
                 !.direction = IF @ = Absent THEN "IN" ELSE @,
                 !.action = IF @ = Absent THEN "ALLOW" ELSE @,
                 !.enabled = IF @ = Absent THEN "True" ELSE @]

\* the loop `for rule in rules` of get_rules at index i: an entry that is
\* not a dict is removed from the list the loop runs over, and the loop goes
\* on at the next index of the shortened list
RECURSIVE EnsureFields(_, _, _)
EnsureFields(rules, i, uuid) ==
    IF i > Len(rules) THEN [rules |-> rules, uuid |-> uuid]
    ELSE IF ~rules[i].dict THEN EnsureFields(RemoveAt(rules, i), i + 1, uuid)
    ELSE EnsureFields([rules EXCEPT ![i] = Defaulted(rules[i], uuid)], i + 1,
                      IF rules[i].id = NoId THEN uuid + 1 ELSE uuid)

\* FirewallConfig.get_rules on the configuration cfg: the configuration it
\* leaves, the list it returns, and whether it wrote the file
ConfigGetRules(cfg, uuid) ==
    LET rules0 == IF cfg.shape = "bare" THEN << >> ELSE cfg.rules
        done == EnsureFields(rules0, 1, uuid)
        needs_save == cfg.shape # "profiles" \/ done.rules # rules0
    IN  [config |-> IF needs_save THEN [shape |-> "profiles", rules |-> done.rules]
                    ELSE cfg,
         rules |-> done.rules,
         saved |-> needs_save,
         uuid |-> done.uuid]

\* the store after a call of get_rules
StoreAfterGetRules ==
    LET g == ConfigGetRules(config, next_uuid)
    IN  /\ config' = g.config
        /\ config_file' = IF g.saved THEN g.config ELSE config_file
        /\ next_uuid' = g.uuid

\* FirewallManager._rules is the list object get_rules returned to
\* _load_rules, which is the list of the configuration in memory, until one
\* of the two is bound to a new list: the cache then keeps the list as it
\* stood
Detached(rules) == IF rules_cache.alias THEN [alias |-> FALSE, rules |-> rules]
                   ELSE rules_cache

\* r["id"] raises for an element of the list: it is not a dict, or has no id
IdRaises(rules) == \E i \in 1..Len(rules) : ~rules[i].dict \/ rules[i].id = NoId

\* the index update_rule stops at: the first rule with the id, 0 when the
\* loop ends without one, -1 when r["id"] raises before
RECURSIVE FindRule(_, _, _)
FindRule(rules, rule_id, i) ==
    IF i > Len(rules) THEN 0
    ELSE IF ~rules[i].dict \/ rules[i].id = NoId THEN -1
    ELSE IF rules[i].id = rule_id THEN i
    ELSE FindRule(rules, rule_id, i + 1)

\* load_config on the file: its document, and the default configuration
\* when json.load raises on a document that was cut short
LoadConfig(file) == IF file.shape = "cut" THEN DefaultConfig ELSE file

\* FirewallConfig.__init__: load_config reads the file
Load ==
    /\ config' = LoadConfig(config_file)
    /\ rules_cache' = Detached(config.rules)
    /\ op' = Call("load_config", "-", "None")
    /\ UNCHANGED <<config_file, next_uuid, backend_mode, kernel_rules,
                   mock_rules, submitted, error_log, secVars, vpnVars, tunVars, monVars>>

\* FirewallConfig.save_config: open(path, 'w') empties the file and
\* json.dump writes the document into it piece by piece; a dump that ends
\* before the last piece (whole = FALSE) leaves the file cut short, and the
\* exception handler returns False
SaveConfig(whole) ==
    /\ config_file' = IF whole THEN config ELSE [shape |-> "cut", rules |-> << >>]
    /\ op' = Call("save_config", "-", Bool(whole))
    /\ UNCHANGED <<config, rules_cache, next_uuid, backend_mode, kernel_rules,
                   mock_rules, submitted, error_log, secVars, vpnVars, tunVars, monVars>>

\* FirewallManager.get_rules
GetRules ==
    /\ StoreAfterGetRules
    /\ op' = Call("get_rules", "-", ConfigGetRules(config, next_uuid).rules)
    /\ UNCHANGED <<rules_cache, backend_mode, kernel_rules, mock_rules, submitted,
                   error_log, secVars, vpnVars, tunVars, monVars>>

\* FirewallManager.add_rule(rule): FirewallConfig.add_rule gives the rule an
\* id when it has none, appends it and saves; without the key
\* current_profile it raises and the manager returns False
AddRule(rule) ==
    /\ Len(config.rules) < MaxRules
    /\ rule.id = NoId => next_uuid < MaxUuid
    /\ IF config.shape # "profiles"
       THEN /\ op' = Call("add_rule", rule, "False")
            /\ UNCHANGED <<config, config_file>>
       ELSE /\ config' = [config EXCEPT !.rules = Append(@, WithId(rule, next_uuid))]
            /\ config_file' = config'
            /\ op' = Call("add_rule", rule, "True")
    /\ next_uuid' = IF rule.id = NoId THEN next_uuid + 1 ELSE next_uuid
    /\ UNCHANGED <<rules_cache, backend_mode, kernel_rules, mock_rules, submitted,
                   error_log, secVars, vpnVars, tunVars, monVars>>

\* FirewallManager.update_rule(rule_id, updated_rule): FirewallConfig
\* .update_rule reads the rules with get_rules, replaces the first rule with
\* the id by updated_rule (under that id) and saves
UpdateRule(rule_id, updated_rule) ==
    LET g == ConfigGetRules(config, next_uuid)
        i == FindRule(g.rules, rule_id, 1)
    IN  /\ g.uuid <= MaxUuid
        /\ next_uuid' = IF config.shape # "profiles" THEN next_uuid ELSE g.uuid
        /\ IF config.shape # "profiles" \/ i < 1
           THEN /\ IF config.shape # "profiles"
                   THEN UNCHANGED <<config, config_file>>
                   ELSE /\ config' = g.config
                        /\ config_file' = IF g.saved THEN g.config ELSE config_file
                /\ op' = Call("update_rule", rule_id, "False")
           ELSE /\ config' = [g.config EXCEPT
                                 !.rules[i] = [updated_rule EXCEPT !.id = rule_id]]
                /\ config_file' = config'
                /\ op' = Call("update_rule", rule_id, "True")
        /\ UNCHANGED <<rules_cache, backend_mode, kernel_rules, mock_rules, submitted,
                       error_log, secVars, vpnVars, tunVars, monVars>>

\* FirewallManager.delete_rule(rule_id): FirewallConfig.delete_rule keeps the
\* rules get_rules returns whose id differs and saves
DeleteRule(rule_id) ==
    LET g == ConfigGetRules(config, next_uuid)
        raises == config.shape # "profiles" \/ IdRaises(g.rules)
    IN  /\ g.uuid <= MaxUuid
        /\ next_uuid' = IF config.shape # "profiles" THEN next_uuid ELSE g.uuid
        /\ IF config.shape # "profiles"
           THEN UNCHANGED <<config, config_file>>
           ELSE IF raises
           THEN /\ config' = g.config
                /\ config_file' = IF g.saved THEN g.config ELSE config_file
           ELSE /\ config' = [g.config EXCEPT !.rules =
                                 SelectSeq(g.rules, LAMBDA r : r.id # rule_id)]
                /\ config_file' = config'
        /\ rules_cache' = IF raises THEN rules_cache ELSE Detached(g.rules)
        /\ op' = Call("delete_rule", rule_id, Bool(~raises))
        /\ UNCHANGED <<backend_mode, kernel_rules, mock_rules, submitted,
                       error_log, secVars, vpnVars, tunVars, monVars>>

\* ---- import ----
\* import_rules: the rule as it is appended to FirewallManager._rules
ImportedRule(rule, uuid) ==
    [WithId(rule, uuid) EXCEPT !.enabled = IF @ = Absent THEN "True" ELSE @]

\* the loop of import_rules from rule i on: it ends in an exception at an
\* entry that is not a dict, at self._save_rules() (FirewallManager has no
\* such method) and at self.nft.add_rule(nft_rule) (add_rule takes table,
\* chain and rule); it ends normally only when it is never entered in
\* replace mode
RECURSIVE ImportLoop(_, _, _, _, _)
ImportLoop(rules, i, cache, uuid, merge) ==
    IF i > Len(rules)
    THEN [cache |-> cache, uuid |-> uuid, ret |-> Bool(~merge)]
    ELSE IF ~rules[i].dict
    THEN [cache |-> cache, uuid |-> uuid, ret |-> "False"]
    ELSE LET rule == ImportedRule(rules[i], uuid)
             u == IF rules[i].id = NoId THEN uuid + 1 ELSE uuid
             added == Append(cache, rule)
         IN  IF ~merge
             THEN [cache |-> added, uuid |-> u, ret |-> "False"]
             ELSE IF rule.enabled = "True" /\ ConvertRuleToNftables(rule).kind # "None"
             THEN [cache |-> added, uuid |-> u, ret |-> "False"]
             ELSE ImportLoop(rules, i + 1, added, u, merge)

\* FirewallManager.import_rules(file_path, merge) for a file {"rules": [...]}
ImportRules(rules, merge) ==
    LET base == IF ~merge THEN << >>
                ELSE IF rules_cache.alias THEN config.rules ELSE rules_cache.rules
        done == ImportLoop(rules, 1, base, next_uuid, merge)
    IN  /\ Len(done.cache) <= MaxRules
        /\ done.uuid <= MaxUuid
        /\ IF merge /\ rules_cache.alias
           THEN /\ config' = [config EXCEPT !.rules = done.cache]
                /\ UNCHANGED rules_cache
           ELSE /\ rules_cache' = [alias |-> FALSE, rules |-> done.cache]
                /\ UNCHANGED config
        /\ next_uuid' = done.uuid
        /\ op' = CallVia("import_rules", rules, done.ret, Bool(merge))
        /\ UNCHANGED <<config_file, backend_mode, kernel_rules, mock_rules,
                       submitted, error_log, secVars, vpnVars, tunVars, monVars>>

\* ---- apply ----
\* _create_default_nftables_config
DefaultNftablesConfig ==
    << [cmd |-> "flush ruleset", chain |-> "", expr |-> ""],
       [cmd |-> "add table", chain |-> "", expr |-> "ip filter"],
       [cmd |-> "add chain", chain |-> "INPUT", expr |-> "hook input policy drop"],
       [cmd |-> "add rule", chain |-> "INPUT", expr |-> "ct state related,established accept"],
       [cmd |-> "add rule", chain |-> "INPUT", expr |-> "iifname lo accept"],
       [cmd |-> "add rule", chain |-> "INPUT", expr |-> "protocol icmp accept"] >>

\* the keys of the dict _convert_rule_to_nftables returns
StatementKeys == {"action", "family", "table", "chain", "meta", "dport", "sport",
                  "saddr", "daddr", "iifname", "oifname", "ct", "log"}

\* apply_rules reads nft_rule['table'], nft_rule['chain'] and nft_rule['expr']:
\* the error that raises, "" when all three can be read
SubscriptError(converted) ==
    IF converted.kind = "None" THEN "TypeError: 'NoneType' object is not subscriptable"
    ELSE IF converted.kind = "list" THEN "TypeError: list indices must be integers"
    ELSE IF "table" \notin StatementKeys THEN "KeyError: 'table'"
    ELSE IF "chain" \notin StatementKeys THEN "KeyError: 'chain'"
    ELSE IF "expr" \notin StatementKeys THEN "KeyError: 'expr'"
    ELSE ""

\* the entries the loop of apply_rules appends for the rules from i on
RECURSIVE UserEntries(_, _)
UserEntries(rules, i) ==
    IF i > Len(rules) THEN << >>
    ELSE LET converted == ConvertRuleToNftables(rules[i])
         IN  (IF SubscriptError(converted) = ""
              THEN <<[cmd |-> "add rule", chain |-> converted.stmts[1].chain,
                      stmt |-> converted.stmts[1]]>>
              ELSE << >>) \o UserEntries(rules, i + 1)

\* the errors the loop of apply_rules logs, with the id of the rule
RECURSIVE ConversionErrors(_, _)
ConversionErrors(rules, i) ==
    IF i > Len(rules) \/ ~rules[i].dict THEN << >>
    ELSE LET err == SubscriptError(ConvertRuleToNftables(rules[i]))
         IN  (IF err = "" THEN << >> ELSE <<[id |-> rules[i].id, error |-> err]>>)
                 \o ConversionErrors(rules, i + 1)

\* an entry that is not a dict has no get: the error handler of the loop
\* raises and apply_rules ends in its outer handler
LoopAborts(rules) == \E i \in 1..Len(rules) : ~rules[i].dict

\* what running "flush ruleset" can give: the nft tool may fail, the mock's
\* _run_command always answers success
FlushOutcomes == IF backend_mode = "nft" THEN BOOLEAN ELSE {TRUE}

\* the ruleset of the nft tool after the adapter ran "flush ruleset"; the
\* mock's _run_command leaves MockFirewall.rules alone
KernelAfterFlush(ok) == IF backend_mode = "nft" /\ ok THEN << >> ELSE kernel_rules

\* FirewallManager.apply_rules: get_rules, the default configuration, the
\* loop over the rules, then NFTablesManager.apply_ruleset, which flushes and
\* passes over the entries of the ruleset
ApplyRules ==
    LET g == ConfigGetRules(config, next_uuid)
    IN  /\ g.uuid <= MaxUuid
        /\ StoreAfterGetRules
        /\ error_log' = ConversionErrors(g.rules, 1)
        /\ IF LoopAborts(g.rules)
           THEN /\ op' = CallVia("apply_rules", "-", "False", "aborted")
                /\ UNCHANGED <<submitted, kernel_rules>>
           ELSE \E ok \in FlushOutcomes :
                  /\ submitted' = DefaultNftablesConfig \o UserEntries(g.rules, 1)
                  /\ kernel_rules' = KernelAfterFlush(ok)
                  /\ op' = CallVia("apply_rules", "-", Bool(ok), "applied")
        /\ UNCHANGED <<rules_cache, backend_mode, mock_rules, secVars, vpnVars,
                       tunVars, monVars>>

\* ---- NFTablesManager and MockFirewall ----
\* the rules handed to the backends
BackendRules == {"tcp dport 22 accept", "udp dport 53 drop"}

\* NFTablesManager.get_ruleset: the mock's rules in mock mode, the listing of
\* the nft tool otherwise
GetRuleset == IF backend_mode = "mock" THEN mock_rules ELSE kernel_rules

\* NFTablesManager.add_rule(table, chain, rule): self._run_command is not a
\* method of NFTablesManager, the AttributeError is caught and logged
NftAddRule(rule) ==
    /\ error_log' = <<[id |-> NoId, error |-> "Failed to add rule: AttributeError"]>>
    /\ op' = Call("nft_add_rule", rule, "False")
    /\ UNCHANGED <<config, config_file, rules_cache, next_uuid, backend_mode,
                   kernel_rules, mock_rules, submitted, secVars, vpnVars, tunVars, monVars>>

\* NFTablesManager.delete_rule(handle, table, chain): the command goes to the
\* nft tool or to the mock's _run_command
NftDeleteRule(handle) ==
    \E ok \in FlushOutcomes :
        /\ kernel_rules' = IF backend_mode = "nft" /\ ok
                           THEN SelectSeq(kernel_rules, LAMBDA r : r.handle # handle)
                           ELSE kernel_rules
        /\ op' = Call("nft_delete_rule", handle, Bool(ok))
        /\ UNCHANGED <<config, config_file, rules_cache, next_uuid, backend_mode,
                       mock_rules, submitted, error_log, secVars, vpnVars, tunVars, monVars>>

\* NFTablesManager.flush_ruleset
NftFlushRuleset ==
    \E ok \in FlushOutcomes :
        /\ kernel_rules' = KernelAfterFlush(ok)
        /\ op' = Call("nft_flush_ruleset", "-", Bool(ok))
        /\ UNCHANGED <<config, config_file, rules_cache, next_uuid, backend_mode,
                       mock_rules, submitted, error_log, secVars, vpnVars, tunVars, monVars>>

\* MockFirewall.add_rule(table, chain, rule), called on the mock itself
MockAddRule(rule) ==
    /\ Len(mock_rules) < MaxRules
    /\ mock_rules' = Append(mock_rules,
                            [table |-> "filter", chain |-> "INPUT", rule |-> rule,
                             handle |-> Len(mock_rules) + 1])
    /\ op' = Call("mock_add_rule", rule, "True")
    /\ UNCHANGED <<config, config_file, rules_cache, next_uuid, backend_mode,
                   kernel_rules, submitted, error_log, secVars, vpnVars, tunVars, monVars>>

\* MockFirewall.delete_rule(handle, table, chain), called on the mock itself
MockDeleteRule(handle) ==
    /\ mock_rules' = SelectSeq(mock_rules, LAMBDA r : r.handle # handle)
    /\ op' = Call("mock_delete_rule", handle, "True")
    /\ UNCHANGED <<config, config_file, rules_cache, next_uuid, backend_mode,
                   kernel_rules, submitted, error_log, secVars, vpnVars, tunVars, monVars>>

\* MockFirewall.flush_ruleset, called on the mock itself
MockFlushRuleset ==
    /\ mock_rules' = << >>
    /\ op' = Call("mock_flush_ruleset", "-", "True")
    /\ UNCHANGED <<config, config_file, rules_cache, next_uuid, backend_mode,
                   kernel_rules, submitted, error_log, secVars, vpnVars, tunVars, monVars>>

\* the store, the cache and the backends as FirewallManager.__init__ leaves
\* them for a configuration file, a backend and a ruleset of the nft tool
InitStoreWith(file, mode, kernel) ==
    /\ config_file = ConfigGetRules(file, 0).config
    /\ config = ConfigGetRules(file, 0).config
    /\ rules_cache = [alias |-> TRUE, rules |-> << >>]
    /\ next_uuid = ConfigGetRules(file, 0).uuid
    /\ backend_mode = mode
    /\ kernel_rules = kernel
    /\ mock_rules = << >>
    /\ submitted = << >>
    /\ error_log = << >>

\* no configuration file: get_default_config, and the mock backend
InitStore == InitStoreWith(DefaultConfig, "mock", << >>)

(***************************************************************************)
(* VPN Session Manager                                                     *)
(***************************************************************************)
\* the VPN zones the manager was loaded with: an OpenVPN profile, a WireGuard
\* tunnel in service mode, and an OpenVPN zone that has neither args nor
\* config_path
Vpns == {"work", "wg", "bare"}
\* the names the callers pass; "ghost" has no zone and no client at launch
Names == Vpns \cup {"ghost"}
\* the VPN that is connected while the policy is set
PolicyVpns == {"work"}
\* _init_vpn_client: the client class of a zone, from vpn_config["type"]
VpnType(name) == IF name = "wg" THEN "wireguard" ELSE "openvpn"
OpenVpns == {name \in Vpns : VpnType(name) = "openvpn"}
\* the configuration gives args or a config_path
HasConfig(name) == name # "bare"

\* no test at all for a running session
AlreadyConnectedNoCheck(name) == FALSE

\* the test connect starts with: OpenVPN asks for the flag and a process that
\* has not exited, WireGuard for the flag
AlreadyConnected(name) ==
    IF VpnType(name) = "openvpn"
    THEN connected[name] /\ process[name] = "alive"
    ELSE connected[name]

\* terminate and wait, without the kill after the timeout
ProcessAfterStopNoKill(graceful) == IF graceful THEN "dead" ELSE "alive"

\* the process after terminate(), wait(timeout=10) and, when the wait timed
\* out, kill(): it has exited either way
ProcessAfterStop(graceful) == "dead"

\* get_status without the poll of the process
StatusConnectedFlagOnly(name) == connected[name]

\* what get_status leaves in connected: an OpenVPN process that has exited
\* clears the flag
StatusConnected(name) ==
    IF VpnType(name) = "openvpn" /\ process[name] = "dead" THEN FALSE
    ELSE connected[name]

\* OpenVPNClient.connect; launched: Popen started the process (FALSE: it raised)
OpenVpnConnect(name, launched) ==
    IF AlreadyConnected(name)
    THEN /\ op' = CallVia("connect_vpn", name, "True", "already")
         /\ UNCHANGED <<connected, process, reader_thread, stop_read, orphans>>
    ELSE IF ~exe_found[name] \/ ~HasConfig(name)
    THEN /\ op' = CallVia("connect_vpn", name, "False", "rejected")
         /\ UNCHANGED <<connected, process, reader_thread, stop_read, orphans>>
    ELSE IF ~launched
    THEN /\ connected' = [connected EXCEPT ![name] = FALSE]
         /\ op' = CallVia("connect_vpn", name, "False", "failed")
         /\ UNCHANGED <<process, reader_thread, stop_read, orphans>>
    ELSE /\ process' = [process EXCEPT ![name] = "alive"]
         /\ orphans' = IF process[name] = "alive"
                       THEN [orphans EXCEPT ![name] = @ + 1] ELSE orphans
         /\ stop_read' = IF log_sink[name] THEN [stop_read EXCEPT ![name] = FALSE]
                         ELSE stop_read
         /\ reader_thread' = IF log_sink[name]
                             THEN [reader_thread EXCEPT ![name] = "running"]
                             ELSE reader_thread
         /\ connected' = [connected EXCEPT ![name] = TRUE]
         /\ op' = CallVia("connect_vpn", name, "True", "launched")

\* WireGuardClient.connect in service mode; launched: the install command
\* returned 0
WireGuardConnect(name, launched) ==
    /\ UNCHANGED <<process, reader_thread, stop_read, orphans>>
    /\ IF AlreadyConnected(name)
       THEN /\ op' = CallVia("connect_vpn", name, "True", "already")
            /\ UNCHANGED <<connected, tunnel_service>>
       ELSE IF ~exe_found[name] \/ ~HasConfig(name)
       THEN /\ op' = CallVia("connect_vpn", name, "False", "rejected")
            /\ UNCHANGED <<connected, tunnel_service>>
       ELSE IF ~launched
       THEN /\ op' = CallVia("connect_vpn", name, "False", "failed")
            /\ UNCHANGED <<connected, tunnel_service>>
       ELSE /\ tunnel_service' = TRUE
            /\ connected' = [connected EXCEPT ![name] = TRUE]
            /\ op' = CallVia("connect_vpn", name, "True", "launched")

\* VPNManager.connect_vpn(name)
ConnectVpn(name, launched) ==
    /\ IF name \notin vpn_clients
       THEN /\ op' = CallVia("connect_vpn", name, "False", "unknown")
            /\ UNCHANGED <<connected, process, reader_thread, stop_read, orphans,
                           tunnel_service>>
       ELSE IF VpnType(name) = "openvpn"
       THEN OpenVpnConnect(name, launched) /\ UNCHANGED tunnel_service
       ELSE WireGuardConnect(name, launched)
    /\ UNCHANGED <<log_sink, exe_found, kill_switch, fw_rules, is_windows, secVars, tunVars, monVars, storeVars>>

\* OpenVPNClient.disconnect; graceful: the process exited within the wait
\* after terminate() (FALSE: the wait timed out).  The reader reaches the end
\* of the pipe of a process that has exited, so the join finds it finished.
OpenVpnDisconnect(name, graceful) ==
    LET running == process[name] = "alive"
        p == IF running THEN ProcessAfterStop(graceful) ELSE process[name]
    IN  /\ process' = [process EXCEPT ![name] = p]
        /\ stop_read' = [stop_read EXCEPT ![name] = TRUE]
        /\ reader_thread' =
             IF reader_thread[name] = "running" /\ p # "alive"
             THEN [reader_thread EXCEPT ![name] = "done"]
             ELSE reader_thread
        /\ connected' = [connected EXCEPT ![name] = FALSE]
        /\ op' = CallVia("disconnect_vpn", name, "True",
                         IF ~running THEN "idle"
                         ELSE IF graceful THEN "terminated" ELSE "killed")
        /\ UNCHANGED tunnel_service

\* WireGuardClient.disconnect in service mode; graceful: the uninstall command
\* returned 0 (the flag is cleared also when it did not)
WireGuardDisconnect(name, graceful) ==
    /\ UNCHANGED <<process, reader_thread, stop_read>>
    /\ IF ~connected[name]
       THEN /\ op' = CallVia("disconnect_vpn", name, "True", "idle")
            /\ UNCHANGED <<connected, tunnel_service>>
       ELSE /\ connected' = [connected EXCEPT ![name] = FALSE]
            /\ IF ~exe_found[name]
               THEN /\ op' = CallVia("disconnect_vpn", name, "True", "no_cli")
                    /\ UNCHANGED tunnel_service
               ELSE /\ tunnel_service' = IF graceful THEN FALSE ELSE tunnel_service
                    /\ op' = CallVia("disconnect_vpn", name, "True",
                                     IF graceful THEN "uninstalled" ELSE "failed")

\* VPNManager.disconnect_vpn(name)
DisconnectVpn(name, graceful) ==
    /\ IF name \notin vpn_clients
       THEN /\ op' = CallVia("disconnect_vpn", name, "False", "unknown")
            /\ UNCHANGED <<connected, process, reader_thread, stop_read,
                           tunnel_service>>
       ELSE IF VpnType(name) = "openvpn"
       THEN OpenVpnDisconnect(name, graceful)
       ELSE WireGuardDisconnect(name, graceful)
    /\ UNCHANGED <<log_sink, exe_found, orphans, kill_switch, fw_rules, is_windows,
                   secVars, tunVars, monVars, storeVars>>

\* connected after _emit_status(name), which reads the status of a known name
ConnectedAfterStatus(name) ==
    IF name \in vpn_clients THEN [connected EXCEPT ![name] = StatusConnected(name)]
    ELSE connected

\* VPNManager.get_vpn_status(name)
GetVpnStatus(name) ==
    /\ connected' = ConnectedAfterStatus(name)
    /\ op' = Call("get_vpn_status", name,
                  IF name \in vpn_clients THEN Bool(StatusConnected(name)) ELSE "error")
    /\ UNCHANGED <<process, log_sink, reader_thread, stop_read, exe_found, orphans,
                   tunnel_service, kill_switch, fw_rules, is_windows, secVars, tunVars, monVars, storeVars>>

\* OpenVPNClient.set_log_sink(sink)
SetLogSink(name) ==
    /\ log_sink' = [log_sink EXCEPT ![name] = TRUE]
    /\ op' = Call("set_log_sink", name, "None")
    /\ UNCHANGED <<connected, process, reader_thread, stop_read, exe_found, orphans,
                   tunnel_service, kill_switch, fw_rules, is_windows, secVars, tunVars, monVars, storeVars>>

\* the client process exits by itself
ProcessExit(name) ==
    /\ process[name] = "alive"
    /\ process' = [process EXCEPT ![name] = "dead"]
    /\ op' = Call("process_exit", name, "None")
    /\ UNCHANGED <<connected, log_sink, reader_thread, stop_read, exe_found, orphans,
                   tunnel_service, kill_switch, fw_rules, is_windows, secVars, tunVars, monVars, storeVars>>

\* a process nothing refers to any more exits
OrphanExit(name) ==
    /\ orphans[name] > 0
    /\ orphans' = [orphans EXCEPT ![name] = @ - 1]
    /\ op' = Call("orphan_exit", name, "None")
    /\ UNCHANGED <<connected, process, log_sink, reader_thread, stop_read, exe_found,
                   tunnel_service, kill_switch, fw_rules, is_windows, secVars, tunVars, monVars, storeVars>>

\* _reader: the loop over the output of a process that has exited ends
ReaderEof(name) ==
    /\ reader_thread[name] = "running"
    /\ process[name] # "alive"
    /\ reader_thread' = [reader_thread EXCEPT ![name] = "done"]
    /\ op' = Call("reader_eof", name, "None")
    /\ UNCHANGED <<connected, process, log_sink, stop_read, exe_found, orphans,
                   tunnel_service, kill_switch, fw_rules, is_windows, secVars, tunVars, monVars, storeVars>>

\* the client program is installed or removed
ExeChange(name) ==
    /\ exe_found' = [exe_found EXCEPT ![name] = ~@]
    /\ op' = Call("exe_change", name, "None")
    /\ UNCHANGED <<connected, process, log_sink, reader_thread, stop_read, orphans,
                   tunnel_service, kill_switch, fw_rules, is_windows, secVars, tunVars, monVars, storeVars>>

(***************************************************************************)
(* Kill switch: VPNManager, FirewallManager and WindowsFirewallController  *)
(***************************************************************************)
\* the two rules enable_kill_switch creates
KillRules == {"TuxFw_Kill_Block_LAN", "TuxFw_Kill_Block_Wireless"}

\* what _run_ps can return: FALSE off Windows, and the command may fail on it
PsOutcomes == IF is_windows THEN BOOLEAN ELSE {FALSE}

\* _remove_group that removes nothing
GroupKept(rules, removed) == rules

\* what is left of rules of the group after _remove_group; removed: the
\* PowerShell command returned 0
GroupRemoved(rules, removed) == IF removed THEN {} ELSE rules

\* WindowsFirewallController.enable_kill_switch
RulesAfterEnable(removed, ok1, ok2) ==
    GroupRemoved(fw_rules, removed)
        \cup (IF ok1 THEN {"TuxFw_Kill_Block_LAN"} ELSE {})
        \cup (IF ok2 THEN {"TuxFw_Kill_Block_Wireless"} ELSE {})

\* how the PowerShell commands of a call went
PsVia(all_ok) == IF all_ok THEN "ps_ok" ELSE "ps_error"

\* FirewallManager.set_kill_switch(name, enabled): the flag in the manager's
\* set, the status emitted, then the rules of the host firewall
SetKillSwitch(name, enabled) ==
    \E removed \in PsOutcomes, ok1 \in PsOutcomes, ok2 \in PsOutcomes :
        /\ enabled \/ (~ok1 /\ ~ok2)
        /\ kill_switch' = IF enabled THEN kill_switch \cup {name}
                          ELSE kill_switch \ {name}
        /\ connected' = ConnectedAfterStatus(name)
        /\ fw_rules' = IF enabled THEN RulesAfterEnable(removed, ok1, ok2)
                       ELSE GroupRemoved(fw_rules, removed)
        /\ split_rules' = GroupRemoved(split_rules, removed)
        /\ op' = CallVia(IF enabled THEN "enable_kill_switch" ELSE "disable_kill_switch",
                         name, "True",
                         PsVia(removed /\ (enabled => ok1 /\ ok2)))
        /\ UNCHANGED <<process, log_sink, reader_thread, stop_read, exe_found,
                       orphans, tunnel_service, is_windows, secVars,
                       vpn_clients, split_tunnel, zones, zone_files, storeVars,
                       monVars>>

\* VPNManager.is_kill_switch_enabled(name)
IsKillSwitchEnabled(name) == name \in kill_switch

(***************************************************************************)
(* Split tunnelling: VPNManager, ZoneManager, FirewallManager and          *)
(* WindowsFirewallController                                               *)
(***************************************************************************)
\* the modes the callers pass
ModeInputs == {"exclude", "Include", "exclude ", "bogus"}
\* the route lists the callers pass
RouteLists == {<< >>, <<"10.0.0.0/8">>}
\* the names split tunnelling is set for
TunnelNames == {"work", "ghost"}
\* the names VPN zones are added under at run time
NewVpns == {"ghost"}

\* str.lower() and str.strip() on the modes above
ModeLower(mode) == IF mode = "Include" THEN "include" ELSE mode
ModeStrip(mode) == IF mode = "exclude " THEN "exclude" ELSE mode

\* a vpn_config without a split_tunneling entry
NoPolicy == [mode |-> "-", routes |-> << >>]
\* what get_split_tunneling answers when nothing is stored
DefaultPolicy == [mode |-> "exclude", routes |-> << >>]

\* VPNManager.get_split_tunneling(name): the manager's dict first, then the
\* zone's vpn_config, then the default
GetSplitTunneling(name) ==
    IF name \in DOMAIN split_tunnel THEN split_tunnel[name]
    ELSE IF name \in DOMAIN zones /\ zones[name] # NoPolicy THEN zones[name]
    ELSE DefaultPolicy

\* the rules apply_split_tunneling_exclude / _include create for routes
SplitRulesFor(mode, routes) ==
    IF mode = "exclude"
    THEN {[rule |-> "TuxFw_Split_Block_RemoteAccess", i |-> i - 1, cidr |-> routes[i]] :
             i \in 1..Len(routes)}
    ELSE {[rule |-> "TuxFw_Split_Block_RemoteAccess_All", i |-> 0, cidr |-> "any"]}
         \cup {[rule |-> "TuxFw_Split_Allow_RemoteAccess", i |-> i - 1, cidr |-> routes[i]] :
                   i \in 1..Len(routes)}

\* the TuxFw_Split_* rules the enforcer can hold after FirewallManager hands
\* it a policy: the earlier ones removed or not, each new one created or not;
\* without routes the earlier ones are only cleared
EnforcerOutcomes(mode, routes, rules) ==
    IF routes = << >>
    THEN {GroupRemoved(rules, removed) : removed \in PsOutcomes}
    ELSE {GroupRemoved(rules, removed) \cup added :
             removed \in PsOutcomes,
             added \in IF is_windows THEN SUBSET SplitRulesFor(mode, routes) ELSE {{}}}

\* VPNManager.set_split_tunneling: the zone of the name, when the zone manager
\* has one, gets the policy and is saved
ZonesAfterSet(name, policy) ==
    IF name \in DOMAIN zones THEN [zones EXCEPT ![name] = policy] ELSE zones
FilesAfterSet(name, policy) ==
    IF name \in DOMAIN zones THEN DictPut(zone_files, name, policy) ELSE zone_files

\* FirewallManager.set_split_tunneling(name, mode, routes)
SetSplitTunneling(name, mode, routes) ==
    LET norm == ModeStrip(ModeLower(mode))
        policy == [mode |-> norm, routes |-> routes]
        kind == IF ModeLower(mode) = "exclude" THEN "exclude" ELSE "include"
    IN  IF norm \notin {"include", "exclude"}
        THEN /\ op' = Call("set_split_tunneling", name, "False")
             /\ UNCHANGED <<secVars, vpnVars, tunVars, monVars, storeVars>>
        ELSE /\ split_tunnel' = DictPut(split_tunnel, name, policy)
             /\ zones' = ZonesAfterSet(name, policy)
             /\ zone_files' = FilesAfterSet(name, policy)
             /\ connected' = ConnectedAfterStatus(name)
             /\ split_rules' \in EnforcerOutcomes(kind, routes, split_rules)
             /\ op' = Call("set_split_tunneling", name, "True")
             /\ UNCHANGED <<process, log_sink, reader_thread, stop_read, exe_found,
                            orphans, tunnel_service, kill_switch, fw_rules,
                            is_windows, vpn_clients, secVars, storeVars, monVars>>

\* VPNManager.add_vpn_zone(name, config) with an OpenVPN configuration: a
\* zone the zone manager has gets the configuration in place of its own;
\* a new zone is written to its file and not entered in ZoneManager.zones.
\* Then the client object of the name is made anew.
AddVpnZone(name) ==
    /\ process[name] = "alive" => orphans[name] < MaxOrphans
    /\ zones' = IF name \in DOMAIN zones THEN [zones EXCEPT ![name] = NoPolicy]
                ELSE zones
    /\ zone_files' = DictPut(zone_files, name, NoPolicy)
    /\ vpn_clients' = vpn_clients \cup {name}
    /\ orphans' = IF process[name] = "alive"
                  THEN [orphans EXCEPT ![name] = @ + 1] ELSE orphans
    /\ connected' = [connected EXCEPT ![name] = FALSE]
    /\ process' = [process EXCEPT ![name] = "none"]
    /\ log_sink' = [log_sink EXCEPT ![name] = FALSE]
    /\ reader_thread' = [reader_thread EXCEPT ![name] = "none"]
    /\ stop_read' = [stop_read EXCEPT ![name] = FALSE]
    /\ op' = Call("add_vpn_zone", name, "True")
    /\ UNCHANGED <<exe_found, tunnel_service, kill_switch, fw_rules, is_windows,
                   split_tunnel, split_rules, secVars, storeVars, monVars>>

\* the VPNs whose saved policy has routes: the ones
\* _apply_saved_split_tunneling hands to set_split_tunneling
SavedWithRoutes == {name \in DOMAIN zone_files : zone_files[name].routes # << >>}

\* the TuxFw_Split_* rules after the saved policies of the names in todo were
\* applied one after the other, in the order the zone files were listed
RECURSIVE ReplayOutcomes(_, _)
ReplayOutcomes(todo, rules) ==
    IF todo = {} THEN {rules}
    ELSE UNION {UNION {ReplayOutcomes(todo \ {name}, r) :
                          r \in EnforcerOutcomes(zone_files[name].mode,
                                                 zone_files[name].routes, rules)} :
                   name \in todo}

(***************************************************************************)
(* Network Monitor and Intrusion Detection                                  *)
(*   firewall/script/network_monitor.py                                     *)
(***************************************************************************)
\* NetworkMonitor.__init__ and IntrusionDetectionSystem.__init__: no thread,
\* no callback, the three default rules enabled
InitMonitor ==
    /\ monitor_running = FALSE
    /\ thread = "none"
    /\ joining = FALSE
    /\ callbacks = << >>
    /\ loop_pc = "idle"
    /\ loop_i = 1
    /\ polled = {}
    /\ handed = << >>
    /\ ids_rules = [id \in {"port_scan_detection", "brute_force_attempt",
                            "suspicious_connection"} |-> TRUE]

\* NetworkMonitor.register_callback(callback)
RegisterCallback(callback) ==
    /\ ~joining
    /\ Len(callbacks) < MaxCallbacks
    /\ callbacks' = Append(callbacks, callback)
    /\ op' = Call("register_callback", callback, "None")
    /\ UNCHANGED <<monitor_running, thread, joining, loop_pc, loop_i, polled, handed,
                   ids_rules, secVars, vpnVars, tunVars, storeVars>>

\* NetworkMonitor.start(): nothing when the flag is set, else the flag is
\* set and a new thread runs _monitor_loop from its `while`
Start ==
    /\ ~joining
    /\ IF monitor_running
       THEN UNCHANGED <<monitor_running, thread, loop_pc>>
       ELSE /\ monitor_running' = TRUE
            /\ thread' = "set"
            /\ loop_pc' = "test"
    /\ op' = Call("start", "-", "None")
    /\ UNCHANGED <<joining, callbacks, loop_i, polled, handed, ids_rules,
                   secVars, vpnVars, tunVars, storeVars>>

\* NetworkMonitor.stop() up to the join: the flag is cleared; with a thread
\* the caller waits in join(), without one stop() returns
Stop ==
    /\ ~joining
    /\ monitor_running' = FALSE
    /\ joining' = (thread = "set")
    /\ op' = Call("stop", "-", IF thread = "set" THEN "-" ELSE "None")
    /\ UNCHANGED <<thread, callbacks, loop_pc, loop_i, polled, handed, ids_rules,
                   secVars, vpnVars, tunVars, storeVars>>

\* a join that returns while the thread still runs
JoinWithoutWaiting ==
    /\ joining
    /\ joining' = FALSE
    /\ thread' = "none"
    /\ op' = Call("stop", "-", "None")
    /\ UNCHANGED <<monitor_running, callbacks, loop_pc, loop_i, polled, handed, ids_rules,
                   secVars, vpnVars, tunVars, storeVars>>
\* the rest of stop(): join() returns when the thread has ended, the
\* reference is dropped and stop() returns
Join ==
    /\ joining
    /\ loop_pc = "idle"
    /\ joining' = FALSE
    /\ thread' = "none"
    /\ op' = Call("stop", "-", "None")
    /\ UNCHANGED <<monitor_running, callbacks, loop_pc, loop_i, polled, handed, ids_rules,
                   secVars, vpnVars, tunVars, storeVars>>

\* _monitor_loop from the end of one iteration to the callbacks of the next:
\* time.sleep, the test of the flag, and the poll.  The thread ends when the
\* flag is cleared.  seen are the connections whose entry could be built
\* (one that raises NoSuchProcess or AccessDenied is left out); failed: an
\* exception of another kind, which the outer handler logs, ends the
\* iteration before the callbacks
MonitorLoop(seen, failed) ==
    /\ loop_pc = "test" \/ (loop_pc = "notify" /\ loop_i > Len(callbacks))
    /\ IF ~monitor_running
       THEN /\ loop_pc' = "idle"
            /\ UNCHANGED <<polled, handed>>
       ELSE /\ loop_pc' = IF failed THEN "test" ELSE "notify"
            /\ polled' = IF failed THEN polled ELSE seen
            /\ handed' = << >>
    /\ loop_i' = 1
    /\ op' = Call("poll", "-", IF ~monitor_running THEN "ended"
                               ELSE IF failed THEN "raised" ELSE "None")
    /\ UNCHANGED <<monitor_running, thread, joining, callbacks, ids_rules,
                   secVars, vpnVars, tunVars, storeVars>>

\* a callback that raises ends the thread
NotifyPropagates(raised) ==
    /\ loop_pc = "notify"
    /\ loop_i <= Len(callbacks)
    /\ handed' = Append(handed, [callback |-> callbacks[loop_i],
                                 connections |-> polled, raised |-> raised])
    /\ loop_i' = loop_i + 1
    /\ loop_pc' = IF raised THEN "idle" ELSE loop_pc
    /\ op' = Call("callback", callbacks[loop_i], IF raised THEN "raised" ELSE "None")
    /\ UNCHANGED <<monitor_running, thread, joining, callbacks, polled, ids_rules,
                   secVars, vpnVars, tunVars, storeVars>>
\* one turn of `for callback in self._callbacks`: the callback is called
\* with the statistics and connections of the iteration; an exception it
\* raises is logged and the loop goes to the next callback
Notify(raised) ==
    /\ loop_pc = "notify"
    /\ loop_i <= Len(callbacks)
    /\ handed' = Append(handed, [callback |-> callbacks[loop_i],
                                 connections |-> polled, raised |-> raised])
    /\ loop_i' = loop_i + 1
    /\ op' = Call("callback", callbacks[loop_i], IF raised THEN "raised" ELSE "None")
    /\ UNCHANGED <<monitor_running, thread, joining, callbacks, loop_pc, polled, ids_rules,
                   secVars, vpnVars, tunVars, storeVars>>

\* IntrusionDetectionSystem.analyze_connection(conn) for the remote address
\* of conn: the port is the text after the last colon, read by int(); a
\* port of the table other than 80 and 443 gives one threat
AnalyzeConnection(remote_addr) ==
    LET port == CASE remote_addr = "10.0.0.5:22" -> 22
                  [] remote_addr = "10.0.0.5:443" -> 443
                  [] remote_addr = "10.0.0.5:8080" -> 8080
                  [] OTHER -> 0
        threats == IF remote_addr # "" /\ port \in {22, 23, 3389, 5900}
                   THEN <<[rule_id |-> "suspicious_port", severity |-> "medium",
                           connection |-> remote_addr]>>
                   ELSE << >>
    IN  /\ op' = Call("analyze_connection", remote_addr, threats)
        /\ UNCHANGED <<monVars, secVars, vpnVars, tunVars, storeVars>>

\* IntrusionDetectionSystem.update_rule(rule_id, enabled)
IdsUpdateRule(rule_id, enabled) ==
    /\ ids_rules' = IF rule_id \in DOMAIN ids_rules
                    THEN [ids_rules EXCEPT ![rule_id] = enabled] ELSE ids_rules
    /\ op' = CallVia("ids_update_rule", rule_id, Bool(rule_id \in DOMAIN ids_rules),
                     Bool(enabled))
    /\ UNCHANGED <<monitor_running, thread, joining, callbacks, loop_pc, loop_i, polled,
                   handed, secVars, vpnVars, tunVars, storeVars>>

\* the application is closed and started again: FirewallManager.__init__
\* builds a new ZoneManager (the zone files read), VPNManager (a client per
\* VPN zone) and EnhancedSecurity, and applies the saved split-tunnelling
\* policies; the host firewall and the tunnel service are the system's and
\* stay; a client process still running goes on without an owner (S) or ends
\* with the application
Restart ==
    \E S \in SUBSET {name \in vpn_clients : process[name] = "alive"} :
        /\ \A name \in S : orphans[name] < MaxOrphans
        /\ orphans' = [name \in Names |->
                          IF name \in S THEN orphans[name] + 1 ELSE orphans[name]]
        /\ connected' = [name \in Names |-> FALSE]
        /\ process' = [name \in Names |-> "none"]
        /\ log_sink' = [name \in Names |-> FALSE]
        /\ reader_thread' = [name \in Names |-> "none"]
        /\ stop_read' = [name \in Names |-> FALSE]
        /\ kill_switch' = {}
        /\ zones' = zone_files
        /\ vpn_clients' = DOMAIN zone_files
        /\ split_tunnel' = [name \in SavedWithRoutes |-> zone_files[name]]
        /\ split_rules' \in ReplayOutcomes(SavedWithRoutes, split_rules)
        /\ blocked_ips' = EmptyDict
        /\ requests' = [ip \in IPs |-> [c \in {"default"} |-> << >>]]
        /\ knock_attempts' = EmptyDict
        /\ blocked_countries' = {}
        /\ bad_ips' = {}
        /\ last_updated' = None
        /\ ConfigGetRules(LoadConfig(config_file), next_uuid).uuid <= MaxUuid
        /\ config' = ConfigGetRules(LoadConfig(config_file), next_uuid).config
        /\ config_file' = config'
        /\ rules_cache' = [alias |-> TRUE, rules |-> << >>]
        /\ next_uuid' = ConfigGetRules(LoadConfig(config_file), next_uuid).uuid
        /\ mock_rules' = << >>
        /\ submitted' = << >>
        /\ op' = Call("restart", "-", "None")
        /\ UNCHANGED <<exe_found, tunnel_service, fw_rules, is_windows, now, geo_db,
                       first_request, accept_log, knock_log, zone_files,
                       backend_mode, kernel_rules, error_log>>
        /\ monitor_running' = FALSE
        /\ thread' = "none"
        /\ joining' = FALSE
        /\ callbacks' = << >>
        /\ loop_pc' = "idle"
        /\ loop_i' = 1
        /\ polled' = {}
        /\ handed' = << >>
        /\ ids_rules' = [id \in DOMAIN ids_rules |-> TRUE]

(***************************************************************************)
(* Specifications                                                          *)
(***************************************************************************)
\* the state EnhancedSecurity is constructed in; the GeoIP database is
\* loaded or not, for the whole run
InitSec ==
    /\ now = 0
    /\ blocked_ips = EmptyDict
    /\ requests = [ip \in IPs |-> [c \in {"default"} |-> << >>]]
    /\ knock_attempts = EmptyDict
    /\ blocked_countries = {}
    /\ geo_db \in BOOLEAN
    /\ bad_ips = {}
    /\ last_updated = None
    /\ op = Call("init", "-", "None")
    /\ first_request = [ip \in IPs |-> None]
    /\ accept_log = [ip \in IPs |-> << >>]
    /\ knock_log = [ip \in IPs |-> << >>]

\* the state VPNManager and WindowsFirewallController are constructed in, on
\* a host that has the client programs and no rule of the group
InitVpn ==
    /\ connected = [name \in Names |-> FALSE]
    /\ process = [name \in Names |-> "none"]
    /\ log_sink = [name \in Names |-> FALSE]
    /\ reader_thread = [name \in Names |-> "none"]
    /\ stop_read = [name \in Names |-> FALSE]
    /\ exe_found = [name \in Names |-> TRUE]
    /\ orphans = [name \in Names |-> 0]
    /\ tunnel_service = FALSE
    /\ kill_switch = {}
    /\ fw_rules = {}
    /\ is_windows \in BOOLEAN
    /\ vpn_clients = Vpns
    /\ split_tunnel = EmptyDict
    /\ zones = [name \in Vpns |-> NoPolicy]
    /\ zone_files = [name \in Vpns |-> NoPolicy]
    /\ split_rules = {}

\* the security policy engine as the orchestrator drives it
NextSec ==
    \/ \E ip \in SecIPs, port \in PortArgs : CheckSecurity(ip, port)
    \/ \E ip \in SecIPs, d \in Durations : BlockIp(ip, d)
    \/ \E ip \in SecIPs : UnblockIp(ip)
    \/ \E c \in CountryInputs : BlockCountry(c)
    \/ \E c \in CountryInputs : UnblockCountry(c)
    \/ \E d \in SecSteps : Tick(d, MaxTime)

\* the application as FirewallManager builds it: EnhancedSecurity() without a
\* GeoIP database, on Windows
InitApp == InitSec /\ geo_db = FALSE /\ InitVpn /\ is_windows = TRUE /\ InitStore /\ InitMonitor

SpecSec == InitApp /\ [][NextSec]_vars

\* EnhancedSecurity(geoip_db_path) with a database that loads
InitGeo == InitSec /\ geo_db = TRUE /\ InitVpn /\ is_windows = TRUE /\ InitStore /\ InitMonitor

\* the security policy engine with country blocking at work
SpecGeo == InitGeo /\ [][NextSec]_vars

\* a RateLimiter called directly
NextRate ==
    \/ \E ip \in IPs, e \in Endpoints : IsRateLimited(ip, e)
    \/ \E d \in RateSteps : Tick(d, MaxRateTime)

SpecRate == InitApp /\ [][NextRate]_vars

\* a PortKnocking called directly
NextKnock ==
    \/ \E ip \in IPs, port \in Ports : AddKnock(ip, port)
    \/ \E d \in KnockSteps : Tick(d, MaxKnockTime)

SpecKnock == InitApp /\ [][NextKnock]_vars

\* the VPN sessions under connect, disconnect and status calls, while client
\* processes exit and client programs come and go
NextVpn ==
    \/ \E name \in Names, launched \in BOOLEAN : ConnectVpn(name, launched)
    \/ \E name \in Names, graceful \in BOOLEAN : DisconnectVpn(name, graceful)
    \/ \E name \in Names : GetVpnStatus(name)
    \/ \E name \in OpenVpns : SetLogSink(name)
    \/ \E name \in OpenVpns : ProcessExit(name)
    \/ \E name \in OpenVpns : ReaderEof(name)
    \/ \E name \in Vpns : ExeChange(name)

SpecVpn == InitApp /\ [][NextVpn]_vars

\* the kill switch of the VPNs over restarts of the application
NextPolicy ==
    \/ \E name \in Names, enabled \in BOOLEAN : SetKillSwitch(name, enabled)
    \/ \E name \in PolicyVpns, launched \in BOOLEAN : ConnectVpn(name, launched)
    \/ \E name \in PolicyVpns, graceful \in BOOLEAN : DisconnectVpn(name, graceful)
    \/ \E name \in PolicyVpns : ProcessExit(name)
    \/ \E name \in PolicyVpns : OrphanExit(name)
    \/ Restart

\* the application on Windows or on another system
InitAnyHost == InitSec /\ geo_db = FALSE /\ InitVpn /\ InitStore /\ InitMonitor

SpecPolicy == InitAnyHost /\ [][NextPolicy]_vars

\* split tunnelling of a VPN loaded from a zone and of one added at run time,
\* over connections of the added one and restarts of the application
NextTunnel ==
    \/ \E name \in TunnelNames, mode \in ModeInputs, routes \in RouteLists :
          SetSplitTunneling(name, mode, routes)
    \/ \E name \in NewVpns : AddVpnZone(name)
    \/ \E name \in NewVpns, launched \in BOOLEAN : ConnectVpn(name, launched)
    \/ \E name \in NewVpns, graceful \in BOOLEAN : DisconnectVpn(name, graceful)
    \/ Restart

SpecTunnel == InitAnyHost /\ [][NextTunnel]_vars

\* the rule group of the host firewall under the kill switches of the VPNs
\* and the split tunnelling of one of them
NextEnforcer ==
    \/ \E name \in Vpns, enabled \in BOOLEAN : SetKillSwitch(name, enabled)
    \/ \E name \in PolicyVpns, mode \in ModeInputs, routes \in RouteLists :
          SetSplitTunneling(name, mode, routes)

SpecEnforcer == InitAnyHost /\ [][NextEnforcer]_vars

\* the compiler next to a backend that holds rules
NextCompile ==
    \/ \E rule \in CompileRules : ConvertRule(rule)
    \/ \E rule \in BackendRules : MockAddRule(rule)
    \/ MockFlushRuleset

SpecCompile == InitApp /\ [][NextCompile]_vars

\* the rules added before an apply: compiled for one chain, of an action the
\* compiler does not know, and compiled for both chains
ApplyInputs ==
    {Entry(TRUE, 1, "ssh", "tcp", "22", "in", "allow", "True", ""),
     Entry(TRUE, 2, "web", "tcp", "", "in", "ALLOW", "True", ""),
     Entry(TRUE, 3, "dns", "all", "", "both", "block", "True", "eth0")}

\* a rule the nft tool holds that the application did not put there
ForeignRule == [table |-> "filter", chain |-> "FORWARD", rule |-> "tcp dport 80 accept",
                handle |-> 7]

\* the application over either backend, with or without rules the backend
\* holds already, on a rules file that is empty or holds two entries that
\* are not rules
InitApply ==
    /\ InitSec /\ geo_db = FALSE /\ InitVpn /\ is_windows = TRUE /\ InitMonitor
    /\ \E file \in {DefaultConfig, [shape |-> "profiles", rules |-> <<Junk, Junk>>]},
          mode \in {"nft", "mock"}, kernel \in {<< >>, <<ForeignRule>>} :
          InitStoreWith(file, mode, kernel)

NextApply ==
    \/ \E rule \in ApplyInputs : AddRule(rule)
    \/ ApplyRules
    \/ \E rule \in BackendRules : MockAddRule(rule)

SpecApply == InitApply /\ [][NextApply]_vars

\* the adapter and the mock it drives, next to calls on the mock itself
NextBackend ==
    \/ \E rule \in BackendRules : NftAddRule(rule)
    \/ \E handle \in {1, 2, ForeignRule.handle} : NftDeleteRule(handle)
    \/ NftFlushRuleset
    \/ \E rule \in BackendRules : MockAddRule(rule)
    \/ \E handle \in {1, 2} : MockDeleteRule(handle)
    \/ MockFlushRuleset

SpecBackend == InitApply /\ [][NextBackend]_vars

\* the rules callers add: with an id of their own, with the id of another
\* rule, and without id and without enabled
StoreInputs ==
    {Entry(TRUE, 1, "ssh", "tcp", "22", "in", "allow", "True", ""),
     Entry(TRUE, 1, "web", "tcp", "", "out", "block", "True", ""),
     Entry(TRUE, NoId, "dns", "all", "", "in", "allow", Absent, "")}

\* the lists under "rules" of the files callers import; the last starts
\* with a disabled rule
ImportFiles ==
    {<< >>} \cup {<<rule>> : rule \in StoreInputs}
            \cup {<<Entry(TRUE, 2, "ntp", "all", "", "in", "allow", "False", ""), rule>> :
                      rule \in {r \in StoreInputs : r.id = NoId}}

NextStore ==
    \/ \E rule \in StoreInputs : AddRule(rule)
    \/ \E updated_rule \in {r \in StoreInputs : r.name = "web"} : UpdateRule(1, updated_rule)
    \/ \E rule_id \in {1, UuidBase + 1} : DeleteRule(rule_id)
    \/ GetRules
    \/ \E rules \in ImportFiles, merge \in BOOLEAN : ImportRules(rules, merge)

SpecStore == InitApp /\ [][NextStore]_vars

\* the entries of the rules files: not a rule, a rule with every field, a
\* rule with an action only
FileEntries ==
    {Junk,
     Entry(TRUE, 1, "ssh", "tcp", "22", "in", "allow", "True", ""),
     Entry(TRUE, NoId, Absent, Absent, Absent, Absent, "block", Absent, Absent)}

\* the lists of at most n entries
RECURSIVE FileLists(_)
FileLists(n) ==
    IF n = 0 THEN {<< >>}
    ELSE FileLists(n - 1) \cup
         {Append(list, entry) : list \in {l \in FileLists(n - 1) : Len(l) = n - 1},
                                entry \in FileEntries}

\* FirewallConfig constructed on a file of the legacy format, before the
\* first get_rules
InitLoad ==
    /\ InitSec /\ geo_db = FALSE /\ InitVpn /\ is_windows = TRUE /\ InitMonitor
    /\ \E list \in FileLists(MaxRules) :
          /\ config_file = [shape |-> "legacy", rules |-> list]
          /\ config = config_file
    /\ rules_cache = [alias |-> FALSE, rules |-> << >>]
    /\ next_uuid = 0
    /\ backend_mode = "mock"
    /\ kernel_rules = << >> /\ mock_rules = << >>
    /\ submitted = << >> /\ error_log = << >>

\* loads, get_rules and saves that write the whole document
NextLoad ==
    \/ Load
    \/ GetRules
    \/ SaveConfig(TRUE)

SpecLoad == InitLoad /\ [][NextLoad]_vars

\* the same with saves that may end before the document is whole
NextSave ==
    \/ Load
    \/ GetRules
    \/ \E whole \in BOOLEAN : SaveConfig(whole)

SpecSave == InitLoad /\ [][NextSave]_vars

\* the network monitor under one controlling thread that registers
\* callbacks, starts and stops it, and the intrusion detection beside it
NextMonitor ==
    \/ \E callback \in {"ui", "ids"} : RegisterCallback(callback)
    \/ Start
    \/ Stop
    \/ Join
    \/ \E seen \in SUBSET {"10.0.0.5:22", "10.0.0.5:443"}, failed \in BOOLEAN :
          MonitorLoop(seen, failed)
    \/ \E raised \in BOOLEAN : Notify(raised)
    \/ \E remote_addr \in {"", "10.0.0.5:22", "10.0.0.5:443", "10.0.0.5:8080"} :
          AnalyzeConnection(remote_addr)
    \/ \E rule_id \in {"port_scan_detection", "suspicious_port"}, enabled \in BOOLEAN :
          IdsUpdateRule(rule_id, enabled)

SpecMonitor == InitApp /\ [][NextMonitor]_vars

\* the same where the monitor thread goes on running while it has a step to
\* take (every callback returns or raises) and join() returns once the
\* thread has ended
FairMonitor ==
    /\ SpecMonitor
    /\ WF_vars(\E seen \in SUBSET {"10.0.0.5:22", "10.0.0.5:443"}, failed \in BOOLEAN :
                   MonitorLoop(seen, failed))
    /\ WF_vars(\E raised \in BOOLEAN : Notify(raised))
    /\ WF_vars(Join)

(***************************************************************************)
(* Security Policy Engine: what the specification says, stated on the      *)
(* state a call starts in                                                  *)
(***************************************************************************)
\* the default-class request times of ip
Queue(ip) == requests[ip]["default"]

\* requests of ip recorded in the window that ends now
InWindow(ip) ==
    Cardinality({i \in 1..Len(Queue(ip)) : now - Queue(ip)[i] <= time_window})

\* the knock on port completes the sequence: it is the last port of the
\* sequence and the knocks before it, all inside the window, are the others
KnockCompletes(ip, port) ==
    LET old == IF ip \in DOMAIN knock_attempts THEN knock_attempts[ip] ELSE << >>
        m == sequence_length - 1
    IN  /\ port = sequence[sequence_length]
        /\ Len(old) >= m
        /\ \A j \in 1..m :
              /\ old[Len(old) - m + j][2] = sequence[j]
              /\ now - old[Len(old) - m + j][1] <= knock_window

\* steps (2) to (5) of the specification; feed is the reputation feed as the
\* check sees it
ExpectedAfterBlockList(ip, port, feed) ==
    IF InWindow(ip) >= max_requests THEN "rate_limit"
    ELSE IF geo_db /\ GeoCountry(ip) # "" /\ Upper(GeoCountry(ip)) \in blocked_countries
         THEN "geo_block"
    ELSE IF ip \in feed THEN "reputation_block"
    ELSE IF port \notin {None, 0}
         THEN (IF KnockCompletes(ip, port) THEN "allow" ELSE "block")
    ELSE "allow"

\* steps (1) to (5)
ExpectedOutcome(ip, port, feed) ==
    IF ip \in DOMAIN blocked_ips /\ now < blocked_ips[ip] THEN "block"
    ELSE ExpectedAfterBlockList(ip, port, feed)

\* C1: every check_security call returns the outcome of the first check that
\* applies, in the order block list, rate limiter, country, reputation feed,
\* port knock (a port counts as supplied when it is neither None nor 0)
C1_FixedOrder ==
    [][op'.name = "check_security" =>
          \A ip \in SecIPs, port \in PortArgs :
              CheckSecurity(ip, port) => op'.ret = ExpectedOutcome(ip, port, bad_ips')
      ]_vars

\* a country-blocked address that is also on the reputation feed was answered
\* GeoBlocked
C1_Witness ==
    /\ op.name = "check_security"
    /\ op.ret = "geo_block"
    /\ op.arg \in bad_ips
    /\ IsCountryBlocked(op.arg)

\* C3: block_ip(ip, D) at time t stores t + D; a check before that time returns
\* Block and changes nothing; the first check at or after it drops the entry
\* and lets the remaining checks decide; nothing else than block_ip, unblock_ip
\* or such a check changes the entry (no timer removes it)
C3_BlockUntilExpiry ==
    [][/\ \A ip \in SecIPs, d \in Durations :
              (op'.name = "block_ip" /\ BlockIp(ip, d)) =>
                  ip \in DOMAIN blocked_ips' /\ blocked_ips'[ip] = now + d
       /\ \A ip \in SecIPs, port \in PortArgs :
              (op'.name = "check_security" /\ ip \in DOMAIN blocked_ips
                  /\ CheckSecurity(ip, port)) =>
                  IF now < blocked_ips[ip]
                  THEN op'.ret = "block" /\ blocked_ips' = blocked_ips
                  ELSE /\ op'.ret = ExpectedAfterBlockList(ip, port, bad_ips')
                       /\ ip \in DOMAIN blocked_ips' => op'.ret = "rate_limit"
       /\ \A ip \in DOMAIN blocked_ips :
              (ip \notin DOMAIN blocked_ips' \/ blocked_ips'[ip] # blocked_ips[ip]) =>
                  /\ op'.arg = ip
                  /\ \/ op'.name \in {"block_ip", "unblock_ip"}
                     \/ op'.name = "check_security" /\ now >= blocked_ips[ip]
      ]_vars

\* a check made after block_ip, when time has passed but the block has not
\* expired, was answered Block although the other checks would allow
C3_Witness ==
    \E ip \in SecIPs, d \in Durations :
        /\ op = Call("check_security", ip, "block")
        /\ ip \in DOMAIN blocked_ips
        /\ blocked_ips[ip] - d < now
        /\ now < blocked_ips[ip]
        /\ Len(Queue(ip)) < max_requests
        /\ ExpectedAfterBlockList(ip, None, bad_ips) = "allow"

AcceptedBefore(ip) ==
    IF op.ret = "False" THEN SubSeq(accept_log[ip], 1, Len(accept_log[ip]) - 1)
    ELSE accept_log[ip]

\* how many of them were made at or after time t
AcceptedSince(ip, t) ==
    Cardinality({i \in 1..Len(AcceptedBefore(ip)) : AcceptedBefore(ip)[i] >= t})

\* C2 as stated: once W seconds have elapsed from the first request, N more
\* requests are accepted
C2_NMoreAfterWindow ==
    \A ip \in IPs :
        (/\ op.name = "is_rate_limited"
         /\ op.arg = ip
         /\ first_request[ip] # None
         /\ now - first_request[ip] > time_window
         /\ AcceptedSince(ip, first_request[ip] + time_window) < max_requests)
        => op.ret = "False"

\* C2 as amended: a request is rejected exactly when N requests of the address
\* were accepted in the W seconds before it (the window slides)
C2_SlidingWindow ==
    \A ip \in IPs :
        (op.name = "is_rate_limited" /\ op.arg = ip) =>
            (op.ret = "True" <=> AcceptedSince(ip, now - time_window) >= max_requests)

\* after a rejection, a request was accepted once the oldest request had left
\* the window, while later ones were still in it
C2_Witness ==
    \E ip \in IPs :
        /\ op = Call("is_rate_limited", ip, "False")
        /\ Len(accept_log[ip]) = max_requests + 1
        /\ now - accept_log[ip][1] > time_window
        /\ now - accept_log[ip][2] <= time_window

(***************************************************************************)
(* Port knocking                                                           *)
(***************************************************************************)
PortsOf(l) == [i \in 1..Len(l) |-> l[i][2]]

\* the knocks of ip, of all it ever made, that are inside the window now
RecentKnocks(ip) == SelectSeq(knock_log[ip], LAMBDA k : now - k[1] <= knock_window)

\* C5: add_knock succeeds exactly when the last N knocks of that address inside
\* the window are the configured sequence, in order; only the knocks of the
\* same address count
C5_KnockMatch ==
    op.name = "add_knock" =>
        LET r == PortsOf(RecentKnocks(op.arg))
        IN  op.ret = "True" <=>
               (Len(r) >= sequence_length /\ LastN(r, sequence_length) = sequence)

\* a sequence succeeded although another address knocked between its knocks
C5_Witness ==
    \E ip \in IPs, other \in IPs :
        /\ other # ip
        /\ op = Call("add_knock", ip, "True")
        /\ \E i \in 1..Len(knock_log[other]) :
              /\ knock_log[ip][Len(knock_log[ip]) - sequence_length + 1][1]
                    < knock_log[other][i][1]
              /\ knock_log[other][i][1] < now

\* C6: when add_knock succeeds, the N entries compared are the last N knocks of
\* the address and none is older than the window
C6_NoStaleKnock ==
    (op.name = "add_knock" /\ op.ret = "True") =>
        LET h == knock_log[op.arg]
            l == knock_attempts[op.arg]
        IN  /\ Len(h) >= sequence_length
            /\ Len(l) >= sequence_length
            /\ LastN(l, sequence_length) = LastN(h, sequence_length)
            /\ \A i \in 1..Len(l) : l[i][1] >= now - knock_window

\* the last N knocks are the sequence, but the first of them is older than the
\* window: the knock failed
C6_Witness ==
    \E ip \in IPs :
        LET h == knock_log[ip]
        IN  /\ op = Call("add_knock", ip, "False")
            /\ Len(h) >= sequence_length
            /\ PortsOf(LastN(h, sequence_length)) = sequence
            /\ h[Len(h) - sequence_length + 1][1] < now - knock_window

(***************************************************************************)
(* VPN sessions                                                            *)
(***************************************************************************)
\* the session of an OpenVPN profile as its status reports it
Session(name) == IF StatusConnected(name) THEN "Connected" ELSE "Disconnected"

\* the client processes of a VPN that are running: the one its client refers
\* to, the ones it lost track of and, for WireGuard, the tunnel service
LiveProcesses(name) ==
    (IF process[name] = "alive" THEN 1 ELSE 0) + orphans[name]
        + (IF VpnType(name) = "wireguard" /\ tunnel_service THEN 1 ELSE 0)

\* C7: a VPN starts Disconnected; a connect call on a Disconnected session
\* ends Connected when it returns True and Disconnected when it returns False
\* (a failed attempt), and with the client program found, a configuration and
\* a process that starts it ends Connected; a connect call on a Connected
\* session leaves it Connected; a disconnect call ends Disconnected with no
\* process running; calls for other names leave the session alone
C7_SessionMachine ==
    /\ \A name \in OpenVpns : Session(name) = "Disconnected"
    /\ [][\A name \in OpenVpns :
            /\ (op'.name = "connect_vpn" /\ op'.arg = name) =>
                   IF Session(name) = "Connected"
                   THEN /\ op'.ret = "True"
                        /\ Session(name)' = "Connected"
                        /\ process'[name] = process[name]
                   ELSE \/ op'.ret = "True" /\ Session(name)' = "Connected"
                        \/ op'.ret = "False" /\ Session(name)' = "Disconnected"
            /\ (/\ ConnectVpn(name, TRUE)
                /\ Session(name) = "Disconnected"
                /\ exe_found[name]
                /\ HasConfig(name)) =>
                   /\ op'.ret = "True"
                   /\ Session(name)' = "Connected"
                   /\ process'[name] = "alive"
            /\ (op'.name = "disconnect_vpn" /\ op'.arg = name) =>
                   /\ op'.ret = "True"
                   /\ Session(name)' = "Disconnected"
                   /\ process'[name] # "alive"
            /\ (/\ op'.name \in {"connect_vpn", "disconnect_vpn", "get_vpn_status",
                                  "set_log_sink"}
                /\ op'.arg # name) =>
                   Session(name)' = Session(name)
         ]_vars

\* a session that was Connected has been closed by a disconnect call that
\* found the process running
C7_Witness ==
    \E name \in OpenVpns :
        /\ op = CallVia("disconnect_vpn", name, "True", "terminated")
        /\ Session(name) = "Disconnected"
        /\ process[name] = "dead"

\* C8: a connect call on a VPN that is connected returns True and changes
\* nothing, and no VPN ever has more than one client process running
C8_SingleProcess ==
    /\ [](\A name \in Vpns : LiveProcesses(name) <= 1)
    /\ [][\A name \in Vpns :
            (/\ op'.name = "connect_vpn"
             /\ op'.arg = name
             /\ connected[name]
             /\ VpnType(name) = "openvpn" => process[name] = "alive") =>
                 op'.ret = "True" /\ UNCHANGED vpnVars
         ]_vars

\* connect has been called on a VPN whose process is running, after an
\* earlier process of that VPN had exited
C8_Witness ==
    \E name \in OpenVpns :
        /\ op = CallVia("connect_vpn", name, "True", "already")
        /\ LiveProcesses(name) = 1
        /\ stop_read[name]

C10_KillSwitchReplayed ==
    [][op'.name = "restart" =>
          /\ \A name \in Names :
                 IsKillSwitchEnabled(name)' = IsKillSwitchEnabled(name)
          /\ (is_windows /\ \E name \in Names : IsKillSwitchEnabled(name)') =>
                 KillRules \subseteq fw_rules'
      ]_vars

(***************************************************************************)
(* Split tunnelling and the rule group of the host firewall                *)
(***************************************************************************)
\* C11: the split-tunnel policy of every VPN the manager knows, loaded from
\* a zone or created by add_vpn_zone, is the same before and after a
\* connect, a disconnect and a restart of the application:
\* get_split_tunneling(name) returns the same mode and routes.
C11_SplitTunnelPersists ==
    [][op'.name \in {"connect_vpn", "disconnect_vpn", "restart"} =>
          \A name \in vpn_clients :
              GetSplitTunneling(name)' = GetSplitTunneling(name)]_vars

\* C12: on a host where the PowerShell commands succeed, disable_kill_switch
\* leaves no rule of the group, whatever was enabled before, and
\* enable_kill_switch leaves exactly its two rules, so that a second enable
\* changes nothing (the group is removed, then the rules are created).
C12_KillSwitchToggle ==
    [][/\ (op'.name = "disable_kill_switch" /\ op'.via = "ps_ok") =>
              (fw_rules' = {} /\ split_rules' = {})
       /\ (op'.name = "enable_kill_switch" /\ op'.via = "ps_ok") =>
              (fw_rules' = KillRules /\ split_rules' = {})
       /\ (/\ op.name = "enable_kill_switch" /\ op.via = "ps_ok"
           /\ op'.name = "enable_kill_switch" /\ op'.via = "ps_ok") =>
              (fw_rules' = fw_rules /\ split_rules' = split_rules)]_vars

\* a kill switch was enabled (it still is, for another VPN) and a policy
\* with routes was applied; the disable that followed has left no rule
C12_Witness ==
    /\ op.name = "disable_kill_switch" /\ op.via = "ps_ok"
    /\ kill_switch # {}
    /\ "work" \in DOMAIN split_tunnel /\ split_tunnel["work"].routes # << >>
    /\ fw_rules = {} /\ split_rules = {}

\* two statements of one rule that differ in the chain and in the interface
\* key only
StatementsAlike(a, b) ==
    /\ a.action = b.action /\ a.family = b.family /\ a.table = b.table
    /\ a.l4proto = b.l4proto /\ a.dport = b.dport
    /\ a.chain = "INPUT" /\ b.chain = "OUTPUT"
    /\ a.iifname = b.oifname /\ a.oifname = Absent /\ b.iifname = Absent

\* C15: a rule with direction both that compiles gives exactly two
\* statements, the first for the chain INPUT and the second for OUTPUT, equal
\* in every field but the chain and the interface key; a rule with direction
\* in or out that compiles gives exactly one statement, for its chain; and a
\* call of the compiler changes nothing the backends hold
C15_CompileDirections ==
    [][op'.name = "convert_rule" =>
          /\ (/\ NftAction(op'.arg.action) # NoAction
              /\ ~PortRaises(op'.arg.port)) =>
                  /\ op'.arg.direction = "both" =>
                         /\ op'.ret.kind = "list"
                         /\ Len(op'.ret.stmts) = 2
                         /\ StatementsAlike(op'.ret.stmts[1], op'.ret.stmts[2])
                  /\ op'.arg.direction \in {"in", "out"} =>
                         /\ op'.ret.kind = "dict"
                         /\ Len(op'.ret.stmts) = 1
                         /\ op'.ret.stmts[1].chain =
                               (IF op'.arg.direction = "in" THEN "INPUT" ELSE "OUTPUT")
                         /\ op'.ret.stmts[1].iifname =
                               (IF op'.arg.direction = "in" /\ op'.arg.interface # ""
                                THEN op'.arg.interface ELSE Absent)
                         /\ op'.ret.stmts[1].oifname =
                               (IF op'.arg.direction = "out" /\ op'.arg.interface # ""
                                THEN op'.arg.interface ELSE Absent)
          /\ GetRuleset' = GetRuleset
          /\ kernel_rules' = kernel_rules
          /\ submitted' = submitted]_vars

\* a rule for both directions on eth0 was compiled to two statements while
\* the backend held a rule
C15_Witness ==
    /\ op.name = "convert_rule"
    /\ op.arg.direction = "both" /\ op.arg.interface = "eth0"
    /\ op.ret.kind = "list" /\ Len(op.ret.stmts) = 2
    /\ op.ret.stmts[1].iifname = "eth0" /\ op.ret.stmts[2].oifname = "eth0"
    /\ GetRuleset # << >>

\* the statements the compiler gives for the rules of a list, in the order
\* of the list
RECURSIVE CompiledStatements(_, _)
CompiledStatements(rules, i) ==
    IF i > Len(rules) THEN << >>
    ELSE SelectSeq(ConvertRuleToNftables(rules[i]).stmts, LAMBDA st : st # NoStatement)
            \o CompiledStatements(rules, i + 1)

\* the rules of the default configuration
BaselineRules == SelectSeq(DefaultNftablesConfig, LAMBDA c : c.cmd = "add rule")

\* a ruleset is the baseline followed by the statements: an entry of the
\* backend is compared with a statement by table and chain
IsBaselineThen(ruleset, statements) ==
    /\ Len(ruleset) = Len(BaselineRules) + Len(statements)
    /\ \A i \in 1..Len(BaselineRules) :
          /\ ruleset[i].chain = BaselineRules[i].chain
          /\ ruleset[i].rule = BaselineRules[i].expr
    /\ \A i \in 1..Len(statements) :
          /\ ruleset[Len(BaselineRules) + i].table = statements[i].table
          /\ ruleset[Len(BaselineRules) + i].chain = statements[i].chain

\* C13: after an apply that reports success the ruleset of the backend is
\* the baseline rules followed by the compiled statements of the stored
\* rules in stored order, whatever the backend held before, and a second
\* apply of the same rules leaves the ruleset of the first
C13_ApplyFullReplacement ==
    [][(op'.name = "apply_rules" /\ op'.ret = "True") =>
          /\ IsBaselineThen(GetRuleset', CompiledStatements(config'.rules, 1))
          /\ (op.name = "apply_rules" /\ op.ret = "True") => GetRuleset' = GetRuleset]_vars

\* the rules of a list whose action the compiler knows
KnownActions(rules) ==
    SelectSeq(rules, LAMBDA r : r.dict /\ r.action \in {"allow", "block", "reject"})

\* C14: a rule whose action is none of allow, block and reject compiles to
\* no statement; an apply logs an error with the id of the rule, hands the
\* backend the ruleset it would hand it without the rule, and goes on to the
\* backend as it does without the rule
C14_UnknownActionSkipped ==
    [][op'.name = "apply_rules" =>
          \A i \in 1..Len(config'.rules) :
              (/\ config'.rules[i].dict
               /\ config'.rules[i].action \notin {"allow", "block", "reject"}) =>
                  /\ ConvertRuleToNftables(config'.rules[i]).kind = "None"
                  /\ CompiledStatements(<<config'.rules[i]>>, 1) = << >>
                  /\ ~LoopAborts(config'.rules) =>
                        /\ \E j \in 1..Len(error_log') :
                              /\ error_log'[j].id = config'.rules[i].id
                              /\ error_log'[j].error =
                                    "TypeError: 'NoneType' object is not subscriptable"
                        /\ submitted' = DefaultNftablesConfig
                                           \o UserEntries(KnownActions(config'.rules), 1)
                        /\ op'.via = "applied"
                        /\ backend_mode = "mock" => op'.ret = "True"]_vars

\* an apply of a rule of an unknown action and a rule of a known one went
\* through to the backend and reported success, with the first rule logged
C14_Witness ==
    /\ op.name = "apply_rules" /\ op.via = "applied" /\ op.ret = "True"
    /\ Len(config.rules) = 2
    /\ config.rules[1].action = "ALLOW" /\ config.rules[2].action = "allow"
    /\ \E j \in 1..Len(error_log) : error_log[j].id = config.rules[1].id
    /\ Len(submitted) = Len(DefaultNftablesConfig)

\* C16: over the mock the adapter keeps the contract of a backend: add_rule
\* reports the rule added and get_ruleset then shows it, delete_rule(handle)
\* leaves no rule of that handle in get_ruleset, and after flush_ruleset
\* get_ruleset is empty
C16_MockFulfilsContract ==
    [][backend_mode = "mock" =>
          /\ op'.name = "nft_add_rule" =>
                /\ op'.ret = "True"
                /\ \E i \in 1..Len(GetRuleset') : GetRuleset'[i].rule = op'.arg
          /\ op'.name = "nft_delete_rule" =>
                \A i \in 1..Len(GetRuleset') : GetRuleset'[i].handle # op'.arg
          /\ op'.name = "nft_flush_ruleset" => GetRuleset' = << >>]_vars

\* C17: no two rules of the profile have the same id
C17_RuleIdsUnique ==
    \A i, j \in 1..Len(config.rules) :
        (i # j /\ config.rules[i].dict /\ config.rules[j].dict) =>
            config.rules[i].id # config.rules[j].id

\* the rules of a file as import leaves them: an id for a rule without one,
\* enabled for a rule without it
RECURSIVE ImportedList(_, _, _)
ImportedList(rules, i, uuid) ==
    IF i > Len(rules) THEN << >>
    ELSE <<ImportedRule(rules[i], uuid)>>
            \o ImportedList(rules, i + 1, IF rules[i].id = NoId THEN uuid + 1 ELSE uuid)

\* C18: an import reports success; in replace mode get_rules then returns
\* exactly the rules of the file, in file order, in merge mode the rules it
\* returned before followed by the rules of the file; a rule of the file
\* without enabled is enabled
C18_ImportReplacesOrMerges ==
    [][op'.name = "import_rules" =>
          /\ op'.ret = "True"
          /\ ConfigGetRules(config', next_uuid').rules =
                (IF op'.via = "True" THEN ConfigGetRules(config, next_uuid).rules
                 ELSE << >>) \o ImportedList(op'.arg, 1, next_uuid)
          /\ \A i \in 1..Len(op'.arg) :
                op'.arg[i].enabled = Absent =>
                    \E j \in 1..Len(ConfigGetRules(config', next_uuid').rules) :
                        /\ ConfigGetRules(config', next_uuid').rules[j].name = op'.arg[i].name
                        /\ ConfigGetRules(config', next_uuid').rules[j].enabled = "True"]_vars

\* C19: get_rules leaves a legacy configuration in the profile structure,
\* in memory and in the file, and once the file has the profile structure
\* no load, get_rules or save changes it
C19_MigratedShapeStable ==
    [][/\ op'.name = "get_rules" =>
             (config'.shape = "profiles" /\ config_file'.shape = "profiles")
       /\ config_file.shape = "profiles" => config_file' = config_file]_vars

\* C20: every element of the list get_rules returns is a rule that has id,
\* name, protocol, port, direction, action and enabled
C20_ReturnedRulesComplete ==
    op.name = "get_rules" =>
        \A i \in 1..Len(op.ret) :
            /\ op.ret[i].dict
            /\ op.ret[i].id # NoId
            /\ \A field \in {"name", "protocol", "port", "direction", "action", "enabled"} :
                  op.ret[i][field] # Absent

\* C30: no two rules the mock records have the same handle, and a
\* delete_rule(handle) on the mock removes at most one rule
C30_MockHandlesUnique ==
    /\ [](\A i, j \in 1..Len(mock_rules) :
            i # j => mock_rules[i].handle # mock_rules[j].handle)
    /\ [][op'.name = "mock_delete_rule" =>
             Len(mock_rules) - Len(mock_rules') <= 1]_vars

\* the host firewall holds the kill-switch rules exactly when the flag of
\* some VPN is enabled
KillRulesMatchFlags ==
    /\ kill_switch # {} => fw_rules = KillRules
    /\ kill_switch = {} => fw_rules = {}

\* C26: a set_kill_switch whose enforcer commands succeed, made when the
\* host firewall holds the kill-switch rules exactly when some VPN has its
\* flag enabled, leaves it so: the rules stay while another VPN has the flag
C26_KillRulesIffSomeFlag ==
    [][(/\ op'.name \in {"enable_kill_switch", "disable_kill_switch"}
        /\ op'.via = "ps_ok"
        /\ KillRulesMatchFlags) => KillRulesMatchFlags']_vars

\* C27: enable_kill_switch and disable_kill_switch leave the split-tunnel
\* rules of the host firewall as they were, and set_split_tunneling leaves
\* the kill-switch rules as they were
C27_KillAndSplitIndependent ==
    [][/\ op'.name \in {"enable_kill_switch", "disable_kill_switch"} =>
             split_rules' = split_rules
       /\ op'.name = "set_split_tunneling" => fw_rules' = fw_rules]_vars

\* C28: a check_security call that the block list answers leaves the
\* request window and the knocks as they were; a call that the rate limiter
\* answers records no request and no knock and puts the address on the block
\* list for the cooldown; every other call, whatever it returns, records
\* exactly one request, made now, and the window then holds at most
\* max_requests requests, none older than time_window.  A check right after
\* a RateLimited answer is answered Block.
C28_EveryPassIsCounted ==
    [][op'.name = "check_security" =>
          LET ip == op'.arg
              q == requests[ip]["default"]
              after == requests'[ip]["default"]
          IN  /\ StillBlocked(ip) =>
                    /\ op'.ret = "block"
                    /\ requests' = requests
                    /\ knock_attempts' = knock_attempts
              /\ op'.ret = "rate_limit" =>
                    /\ ~StillBlocked(ip)
                    /\ after = EvictOld(q, now)
                    /\ Len(after) = max_requests
                    /\ knock_attempts' = knock_attempts
                    /\ blocked_ips'[ip] = now + BLOCK_COOLDOWN
              /\ (~StillBlocked(ip) /\ op'.ret # "rate_limit") =>
                    /\ op'.ret \in {"geo_block", "reputation_block", "block", "allow"}
                    /\ after = Append(EvictOld(q, now), now)
                    /\ Len(after) <= max_requests
                    /\ \A i \in 1..Len(after) : now - after[i] <= time_window
              /\ (op.name = "check_security" /\ op.arg = ip /\ op.ret = "rate_limit") =>
                    op'.ret = "block"]_vars

\* the address of a blocked country was answered GeoBlocked max_requests
\* times at one instant, then RateLimited, and is now answered Block
C28_Witness ==
    /\ op.name = "check_security" /\ op.ret = "block"
    /\ IsCountryBlocked(op.arg)
    /\ Len(requests[op.arg]["default"]) = max_requests
    /\ \A i \in 1..max_requests : requests[op.arg]["default"][i] = now
    /\ op.arg \in DOMAIN blocked_ips /\ blocked_ips[op.arg] = now + BLOCK_COOLDOWN

\* C24: the lines a client process writes reach the log callbacks through
\* the reader thread and the log sink of the client: after connect_vpn has
\* launched the process of an OpenVPN client the client has its log sink and
\* its reader thread runs
C24_OutputReachesSink ==
    \A name \in OpenVpns :
        (op.name = "connect_vpn" /\ op.arg = name /\ op.via = "launched") =>
            (log_sink[name] /\ reader_thread[name] = "running")


\* C29: the zone table and the zone files hold the same zones, and after
\* add_vpn_zone(name, config) has returned true get_zone(name) returns the
\* zone of the name, carrying the configuration it was added with
C29_TableAndFilesAgree ==
    /\ DOMAIN zones = DOMAIN zone_files
    /\ (op.name = "add_vpn_zone" /\ op.ret = "True") =>
           (op.arg \in DOMAIN zones /\ zones[op.arg] = NoPolicy)


\* C21: a save leaves in the file the whole configuration it had before or
\* the whole configuration saved, and a load returns the document of the
\* file, never the defaults in its place
C21_SaveIsAtomic ==
    [][/\ op'.name = "save_config" => config_file' \in {config_file, config}
       /\ op'.name = "load_config" => config' = config_file]_vars


\* C22: an iteration of the monitor that has begun to call the callbacks
\* ends only when every registered callback was called with the connections
\* of that iteration, whether or not an earlier one raised, and the thread
\* of the loop ends only when the monitor was stopped
C22_ObserverErrorsCaught ==
    [][/\ (loop_pc = "notify" /\ loop_pc' # "notify") =>
              /\ Len(handed) = Len(callbacks)
              /\ \A k \in 1..Len(handed) :
                    /\ handed[k].callback = callbacks[k]
                    /\ handed[k].connections = polled
       /\ (loop_pc # "idle" /\ loop_pc' = "idle") => ~monitor_running]_vars

\* an iteration in which the first callback raised and the second was called
\* with the connections polled, one entry of the table having been left out
C22_Witness ==
    /\ op.name = "callback" /\ op.arg = "ids"
    /\ Len(handed) = 2
    /\ handed[1].raised /\ handed[1].callback = "ui"
    /\ handed[2].connections = {"10.0.0.5:22"}
    /\ monitor_running

\* C23: once stop() has returned and until start() is called no thread of
\* the monitor runs, so no callback is called; stop() returns only after the
\* thread has ended; and a stop() that waits for the thread returns
C23_StopIsCooperative ==
    /\ []((~monitor_running /\ thread = "none" /\ ~joining) => loop_pc = "idle")
    /\ [][(op'.name = "stop" /\ op'.ret = "None") => loop_pc' = "idle"]_vars
    /\ (joining ~> ~joining)

\* stop() has returned after the thread called both callbacks in an iteration
C23_Witness ==
    /\ op.name = "stop" /\ op.ret = "None"
    /\ thread = "none" /\ ~monitor_running
    /\ Len(handed) = 2

\* C25: every threat analyze_connection returns carries the id of a rule of
\* the table that is enabled
C25_AlertsFollowRuleTable ==
    op.name = "analyze_connection" =>
        \A k \in 1..Len(op.ret) :
            /\ op.ret[k].rule_id \in DOMAIN ids_rules
            /\ ids_rules[op.ret[k].rule_id]

====
